---------------------------- MODULE Spec2Model ----------------------------
(***************************************************************************)
(* A model of mkozhukh/echo-templates: the LRU template cache              *)
(* (templateCache), the loader that sits on it (loadTemplate) and the      *)
(* recursive import expansion (processImportsRecursive).                   *)
(*                                                                         *)
(* Three specifications share the variables:                               *)
(*   Spec       goroutines calling get / put / clear on one templateCache  *)
(*   SpecLoad   goroutines calling loadTemplate while the file changes     *)
(*   SpecImp    Generate over a file system of templates with imports      *)
(***************************************************************************)
EXTENDS Integers, Sequences, FiniteSets, TLC

(***************************************************************************)
(* Bounds of the model.                                                    *)
(***************************************************************************)
\* the capacity the cache is constructed with
CacheSize == 2
\* modification times are 1..MaxTime
MaxTime == 2

\* the goroutines that call into the cache
ProcSeq == <<"p1", "p2">>
Procs == {ProcSeq[i] : i \in 1..Len(ProcSeq)}
\* cache keys (template paths): one more than the capacity, so a put can overflow
Keys == 1..(CacheSize + 1)
Times == 1..MaxTime
\* parsed templates that callers hand to put: one per version of a file
Docs == 1..MaxTime
\* the sizes newTemplateCache is called with
ConfigSizes == {0, CacheSize}

\* the template files that loadTemplate is called on
Paths == {1, 2}
\* a file is modified until it reaches this version
MaxVersion == 2

\* "no element" / "no template" / "no time"
Nil == 0

(***************************************************************************)
(* State.                                                                  *)
(***************************************************************************)
VARIABLES
    entries,   \* templateCache.entries : key -> list element (a partial map)
    lru,       \* templateCache.lru     : the list elements, front first
    items,     \* the cacheItem behind every reachable list element:
               \*   [key, template, modTime]
    maxSize,   \* templateCache.maxSize
    cacheSize, \* Config.CacheSize, the size the cache was asked for
    pc,        \* where each goroutine stands in its call
    loc,       \* the locals of the call a goroutine is in
    last,      \* the step just taken and what it returned (history)
    recent,    \* the keys in the index, most recently touched first (history)
    fileVer,   \* per template file, its version: its content and its ModTime
    fs,        \* the template directory: file name -> body, a sequence of tokens
    res,       \* what the last Generate was called with and what it returned
    engine     \* the templateEngine: the Config New was given, config and cache

vars == <<entries, lru, items, maxSize, cacheSize, pc, loc, last, recent, fileVer,
          fs, res, engine>>

(***************************************************************************)
(* container/list and map helpers, as the cache uses them.                 *)
(***************************************************************************)
\* is e an element of list l (Element.list == l)
InList(l, e) == \E i \in 1..Len(l) : l[i] = e

\* list.Remove: a no-op for an element that is not (or no longer) in l
Remove(l, e) == SelectSeq(l, LAMBDA x : x # e)

\* list.MoveToFront: a no-op for an element that is not (or no longer) in l
MoveToFront(l, e) == IF InList(l, e) THEN <<e>> \o Remove(l, e) ELSE l

\* list.PushFront
PushFront(l, e) == <<e>> \o l

\* list.Back
Back(l) == l[Len(l)]

\* delete(m, k)
Delete(m, k) == [x \in (DOMAIN m) \ {k} |-> m[x]]

\* m[k] = v
MapSet(m, k, v) == [x \in (DOMAIN m) \cup {k} |-> IF x = k THEN v ELSE m[x]]

\* the elements some variable still points to
Live(ents, l, lc) ==
    {ents[k] : k \in DOMAIN ents} \cup {l[i] : i \in 1..Len(l)}
        \cup ({lc[p].elem : p \in DOMAIN lc} \ {Nil})

\* a pointer no live element has (what &cacheItem{} / PushFront allocate)
NewElem(ents, l, lc) ==
    CHOOSE e \in 1..(Cardinality(Live(ents, l, lc)) + 1) : e \notin Live(ents, l, lc)

\* Pointer values are not observable, so states are kept up to a renaming of
\* the elements: an element is named by the first place that points to it,
\* going through the list, then the map by key, then the goroutines' locals.
Refs(ents, l, lc) ==
    l \o [k \in Keys |-> IF k \in DOMAIN ents THEN ents[k] ELSE Nil]
      \o [i \in 1..Len(ProcSeq) |-> lc[ProcSeq[i]].elem]

\* the live elements in the order of their first reference
RECURSIVE Distinct(_, _)
Distinct(refs, seen) ==
    IF refs = <<>> THEN <<>>
    ELSE IF Head(refs) = Nil \/ Head(refs) \in seen
         THEN Distinct(Tail(refs), seen)
         ELSE <<Head(refs)>> \o Distinct(Tail(refs), seen \cup {Head(refs)})

\* the new name of every live element (and of Nil)
Rename(order) ==
    [e \in {order[i] : i \in 1..Len(order)} \cup {Nil} |->
        IF e = Nil THEN Nil ELSE CHOOSE i \in 1..Len(order) : order[i] = e]

(***************************************************************************)
(* templateCache.                                                          *)
(***************************************************************************)
\* the default capacity
DefaultCacheSize == 100

\* newTemplateCache: the capacity the cache ends up with
newTemplateCache(size) == IF size <= 0 THEN DefaultCacheSize ELSE size

\* New: the defaults it sets in the Config it was given, and whether the engine
\* gets a cache (e.cache # nil)
New(given) ==
    LET size == IF given.CacheSize = 0 THEN DefaultCacheSize ELSE given.CacheSize
        enable == IF ~given.EnableCache THEN TRUE ELSE given.EnableCache
    IN  [given  |-> given,
         config |-> [given EXCEPT !.CacheSize = size, !.EnableCache = enable],
         cache  |-> enable]

\* mutant of After: no file ever counts as modified
After_never(fileModTime, modTime) == FALSE

\* mutant of After: a file as old as the entry counts as modified
After_orEqual(fileModTime, modTime) == fileModTime >= modTime

\* fileModTime.After(entry.modTime)
After(fileModTime, modTime) == fileModTime > modTime

\* the cache as one value
Cache == [entries |-> entries, lru |-> lru, items |-> items, maxSize |-> maxSize]

\* get, first critical section (RLock .. RUnlock): the map lookup
getLookup(c, key) == IF key \in DOMAIN c.entries THEN c.entries[key] ELSE Nil

\* mutant of getLocked: a stale entry is reported as a miss but left in place
getLocked_keepStale(c, elem, key, fileModTime) ==
    IF After(fileModTime, c.items[elem].modTime)
    THEN [c |-> c, template |-> Nil, ok |-> FALSE]
    ELSE [c        |-> [c EXCEPT !.lru = MoveToFront(@, elem)],
          template |-> c.items[elem].template,
          ok       |-> TRUE]

\* get, second critical section (Lock .. Unlock), on the element looked up before
getLocked(c, elem, key, fileModTime) ==
    IF After(fileModTime, c.items[elem].modTime)
    THEN [c        |-> [c EXCEPT !.lru = Remove(@, elem),
                                 !.entries = Delete(@, key)],
          template |-> Nil,
          ok       |-> FALSE]
    ELSE [c        |-> [c EXCEPT !.lru = MoveToFront(@, elem)],
          template |-> c.items[elem].template,
          ok       |-> TRUE]

\* mutant of evictOldest: nothing is ever evicted
evictOldest_never(c) == c

\* put, the eviction at its end
evictOldest(c) ==
    IF Len(c.lru) > c.maxSize
    THEN LET oldest == Back(c.lru)
         IN  [c EXCEPT !.lru = Remove(@, oldest),
                       !.entries = Delete(@, c.items[oldest].key)]
    ELSE c

\* mutant of put: an overwrite keeps the ModTime that was stored
put_keepTime(c, key, template, modTime, fresh) ==
    IF key \in DOMAIN c.entries
    THEN LET elem == c.entries[key]
         IN  [c EXCEPT !.items[elem].template = template,
                       !.lru = MoveToFront(@, elem)]
    ELSE evictOldest(
           [c EXCEPT !.items = MapSet(@, fresh, [key |-> key, template |-> template,
                                                 modTime |-> modTime]),
                     !.lru = PushFront(@, fresh),
                     !.entries = MapSet(@, key, fresh)])

\* put (one critical section); fresh is the element a new entry is given
put(c, key, template, modTime, fresh) ==
    IF key \in DOMAIN c.entries
    THEN LET elem == c.entries[key]
         IN  [c EXCEPT !.items[elem].template = template,
                       !.items[elem].modTime = modTime,
                       !.lru = MoveToFront(@, elem)]
    ELSE evictOldest(
           [c EXCEPT !.items = MapSet(@, fresh, [key |-> key, template |-> template,
                                                 modTime |-> modTime]),
                     !.lru = PushFront(@, fresh),
                     !.entries = MapSet(@, key, fresh)])

\* mutant of clear: the list is emptied, the index is kept
clear_listOnly(c) == [c EXCEPT !.lru = <<>>]

\* clear (one critical section)
clear(c) == [c EXCEPT !.entries = <<>>, !.lru = <<>>]

(***************************************************************************)
(* Goroutines calling the cache.  Every action is one critical section of  *)
(* templateCache.mu; a get is two of them.                                 *)
(***************************************************************************)
NoLoc == [key |-> Nil, t |-> Nil, elem |-> Nil, doc |-> Nil, nocache |-> FALSE]

\* what the step just taken was and what it returned
\* op and key: the call; t and doc: what a put was given; ok and template: what a
\* get returned; line: the line of cache.go the call ended on
Step(op, key, t, doc, ok, template, line) ==
    [op |-> op, key |-> key, t |-> t, doc |-> doc, ok |-> ok, template |-> template,
     line |-> line]

\* a key was touched by a put or a successful get: it is the most recent one
Touch(rec, key) == <<key>> \o SelectSeq(rec, LAMBDA k : k # key)

\* the touch order of the keys that are in the index
Present(rec, ents) == SelectSeq(rec, LAMBDA k : k \in DOMAIN ents)

\* install cache value c, given the goroutines' locals after the step
SetCache(c, lc) ==
    \E order \in {Distinct(Refs(c.entries, c.lru, lc), {})} :
      \E R \in {Rename(order)} :
        /\ entries' = [k \in DOMAIN c.entries |-> R[c.entries[k]]]
        /\ lru' = [i \in 1..Len(c.lru) |-> R[c.lru[i]]]
        /\ items' = [n \in 1..Len(order) |-> c.items[order[n]]]
        /\ loc' = [p \in Procs |-> [lc[p] EXCEPT !.elem = R[@]]]
        /\ maxSize' = c.maxSize
        /\ cacheSize' = cacheSize

\* get: RLock, look the key up, RUnlock; a key that is absent returns a miss
GetLookup(p, key, t) ==
    /\ pc[p] = "idle"
    /\ LET elem == getLookup(Cache, key)
       IN  IF elem = Nil
           THEN /\ last' = Step("get", key, Nil, Nil, FALSE, Nil, 202)
                /\ UNCHANGED <<engine, entries, lru, items, maxSize, cacheSize, pc,
                               loc, recent,
                               fileVer, fs, res>>
           ELSE /\ pc' = [pc EXCEPT ![p] = "get_lock"]
                /\ SetCache(Cache, [loc EXCEPT ![p] = [NoLoc EXCEPT !.key = key, !.t = t,
                                                                !.elem = elem]])
                /\ last' = Step("lookup", key, Nil, Nil, TRUE, Nil, 199)
                /\ UNCHANGED <<engine, recent, fileVer, fs, res>>

\* get: Lock, staleness check, removal or promotion, Unlock, return
GetLocked(p) ==
    /\ pc[p] = "get_lock"
    /\ \E r \in {getLocked(Cache, loc[p].elem, loc[p].key, loc[p].t)},
          lc \in {[loc EXCEPT ![p] = NoLoc]} :
           /\ SetCache(r.c, lc)
           /\ pc' = [pc EXCEPT ![p] = "idle"]
           /\ last' = Step("get", loc[p].key, Nil, Nil, r.ok, r.template,
                           IF r.ok THEN 223 ELSE 216)
           /\ recent' = Present(IF r.ok THEN Touch(recent, loc[p].key) ELSE recent,
                                r.c.entries)
           /\ UNCHANGED <<engine, fileVer, fs, res>>

\* put
Put(p, key, doc, t) ==
    /\ pc[p] = "idle"
    \* a cache of the default capacity is filled up to CacheSize entries only
    /\ maxSize > CacheSize => Len(lru) < CacheSize
    /\ \E c \in {put(Cache, key, doc, t, NewElem(entries, lru, loc))} :
           /\ SetCache(c, loc)
           /\ recent' = Present(Touch(recent, key), c.entries)
    /\ last' = Step("put", key, t, doc, TRUE, Nil,
                     IF key \in DOMAIN entries THEN 239
                     ELSE IF Len(lru) + 1 > maxSize THEN 263 ELSE 266)
    /\ UNCHANGED <<engine, pc, fileVer, fs, res>>

\* clear
Clear(p) ==
    /\ pc[p] = "idle"
    /\ SetCache(clear(Cache), loc)
    /\ last' = Step("clear", Nil, Nil, Nil, TRUE, Nil, 275)
    /\ recent' = <<>>
    /\ UNCHANGED <<engine, pc, fileVer, fs, res>>

Init ==
    /\ entries = <<>>
    /\ lru = <<>>
    /\ items = <<>>
    /\ cacheSize \in ConfigSizes
    /\ maxSize = newTemplateCache(cacheSize)
    /\ pc = [p \in Procs |-> "idle"]
    /\ loc = [p \in Procs |-> NoLoc]
    /\ last = Step("new", Nil, Nil, Nil, TRUE, Nil, 193)
    /\ recent = <<>>
    /\ fileVer = [f \in Paths |-> 1]
    /\ fs = <<>>
    /\ res = <<>>
    /\ engine = New([CacheSize |-> cacheSize, EnableCache |-> TRUE])

Next ==
    \/ \E p \in Procs, key \in Keys, t \in Times : GetLookup(p, key, t)
    \/ \E p \in Procs : GetLocked(p)
    \/ \E p \in Procs, key \in Keys, doc \in Docs, t \in Times : Put(p, key, doc, t)
    \/ \E p \in Procs : Clear(p)

Spec == Init /\ [][Next]_vars

(***************************************************************************)
(* loadTemplate: goroutines load template files through the cache while    *)
(* the files are modified.  A file's content is its version number and its *)
(* ModTime is that version, so every modification moves the ModTime on.    *)
(***************************************************************************)
\* os.Stat: the file's ModTime is taken before anything else
LoadStat(p, path, disableCache) ==
    /\ pc[p] = "idle"
    /\ pc' = [pc EXCEPT ![p] = IF disableCache THEN "ld_open" ELSE "ld_get"]
    /\ loc' = [loc EXCEPT ![p] = [NoLoc EXCEPT !.key = path, !.t = fileVer[path],
                                               !.nocache = disableCache]]
    /\ last' = Step("stat", path, fileVer[path], Nil, TRUE, Nil, 132)
    /\ UNCHANGED <<engine, entries, lru, items, maxSize, cacheSize, recent, fileVer,
                   fs, res>>

\* cache.get(path, info.ModTime()), first critical section
LoadLookup(p) ==
    /\ pc[p] = "ld_get"
    /\ \E elem \in {getLookup(Cache, loc[p].key)} :
          /\ pc' = [pc EXCEPT ![p] = IF elem = Nil THEN "ld_open" ELSE "ld_lock"]
          /\ SetCache(Cache, [loc EXCEPT ![p].elem = elem])
          /\ last' = Step("lookup", loc[p].key, Nil, Nil, elem # Nil, Nil,
                          IF elem = Nil THEN 202 ELSE 199)
    /\ UNCHANGED <<engine, recent, fileVer, fs, res>>

\* cache.get, second critical section; a hit is what loadTemplate returns
LoadLocked(p) ==
    /\ pc[p] = "ld_lock"
    /\ \E r \in {getLocked(Cache, loc[p].elem, loc[p].key, loc[p].t)} :
          /\ SetCache(r.c, [loc EXCEPT ![p] = IF r.ok THEN NoLoc
                                              ELSE [loc[p] EXCEPT !.elem = Nil]])
          /\ pc' = [pc EXCEPT ![p] = IF r.ok THEN "idle" ELSE "ld_open"]
          /\ last' = IF r.ok
                     THEN Step("load", loc[p].key, loc[p].t, Nil, TRUE, r.template, 146)
                     ELSE Step("get", loc[p].key, Nil, Nil, FALSE, Nil, 216)
          /\ recent' = Present(IF r.ok THEN Touch(recent, loc[p].key) ELSE recent,
                               r.c.entries)
    /\ UNCHANGED <<engine, fileVer, fs, res>>

\* os.Open and parseFrontMatter: the content the file has now is read; with the
\* cache disabled for the call that is what loadTemplate returns
LoadOpen(p) ==
    /\ pc[p] = "ld_open"
    /\ pc' = [pc EXCEPT ![p] = IF loc[p].nocache THEN "idle" ELSE "ld_put"]
    /\ loc' = [loc EXCEPT ![p] = IF loc[p].nocache THEN NoLoc
                                 ELSE [loc[p] EXCEPT !.doc = fileVer[loc[p].key]]]
    /\ last' = IF loc[p].nocache
               THEN Step("load", loc[p].key, loc[p].t, Nil, TRUE, fileVer[loc[p].key],
                         177)
               ELSE Step("open", loc[p].key, Nil, Nil, TRUE, Nil, 158)
    /\ UNCHANGED <<engine, entries, lru, items, maxSize, cacheSize, recent, fileVer,
                   fs, res>>

\* cache.put(path, template, info.ModTime()) and the return of what was read
LoadPut(p) ==
    /\ pc[p] = "ld_put"
    /\ \E c \in {put(Cache, loc[p].key, loc[p].doc, loc[p].t,
                     NewElem(entries, lru, loc))} :
          /\ SetCache(c, [loc EXCEPT ![p] = NoLoc])
          /\ recent' = Present(Touch(recent, loc[p].key), c.entries)
    /\ pc' = [pc EXCEPT ![p] = "idle"]
    /\ last' = Step("load", loc[p].key, loc[p].t, Nil, TRUE, loc[p].doc, 177)
    /\ UNCHANGED <<engine, fileVer, fs, res>>

\* the file is rewritten: new content, later ModTime
ModifyFile(path) ==
    /\ fileVer[path] < MaxVersion
    /\ fileVer' = [fileVer EXCEPT ![path] = @ + 1]
    /\ last' = Step("modify", path, fileVer[path] + 1, Nil, TRUE, Nil, Nil)
    /\ UNCHANGED <<engine, entries, lru, items, maxSize, cacheSize, pc, loc, recent,
                   fs, res>>

\* templateEngine.ClearCache
ClearCache ==
    /\ SetCache(clear(Cache), loc)
    /\ last' = Step("clear", Nil, Nil, Nil, TRUE, Nil, 275)
    /\ recent' = <<>>
    /\ UNCHANGED <<engine, pc, fileVer, fs, res>>

\* an engine whose cache holds one template
InitLoad ==
    /\ entries = <<>>
    /\ lru = <<>>
    /\ items = <<>>
    /\ cacheSize = 1
    /\ maxSize = newTemplateCache(cacheSize)
    /\ pc = [p \in Procs |-> "idle"]
    /\ loc = [p \in Procs |-> NoLoc]
    /\ last = Step("new", Nil, Nil, Nil, TRUE, Nil, 193)
    /\ recent = <<>>
    /\ fileVer = [f \in Paths |-> 1]
    /\ fs = <<>>
    /\ res = <<>>
    /\ engine = New([CacheSize |-> cacheSize, EnableCache |-> TRUE])

NextLoad ==
    \/ \E p \in Procs, path \in Paths, disableCache \in BOOLEAN :
          LoadStat(p, path, disableCache)
    \/ \E p \in Procs : LoadLookup(p)
    \/ \E p \in Procs : LoadLocked(p)
    \/ \E p \in Procs : LoadOpen(p)
    \/ \E p \in Procs : LoadPut(p)
    \/ \E path \in Paths : ModifyFile(path)
    \/ ClearCache

SpecLoad == InitLoad /\ [][NextLoad]_vars

(***************************************************************************)
(* Import expansion.  A body is a sequence of tokens: a piece of plain     *)
(* text, or an import expression {{@path}}, written with or without blanks *)
(* around the path ({{@ path }}).  A path is a template name or the nested *)
(* placeholder {{v}}.  A body can also hold plain placeholders {{name}} and *)
(* {{name|literal}} and raw placeholders {{{name}}}; a file can start with  *)
(* front-matter lines that give defaults (default.name: value).            *)
(***************************************************************************)
\* the template names import expressions and callers use (without suffix);
\* "x" has no file
Names == {"a", "b", "c", "d", "x"}
\* the files of the template directory
Files == {"a.md", "b.md", "c.md", "d.md"}
\* the files whose body is edited
Editable == {"a.md", "b.md", "c.md"}
\* the nested placeholder of a dynamic import path, and its variable
Dyn == "{{v}}"
DynVar == "v"
\* what an import expression can have as its path
PathTexts == Names \cup {Dyn}
\* the templates Generate is called on
Roots == {"a", "x"}
\* the call's variables: v is not supplied, or has this value
Unset == "<unset>"
VarsSet == {[n \in {DynVar} |-> Unset], [n \in {DynVar} |-> "b"]}

\* import expressions per body, in the whole directory, and written with blanks
MaxImports == 2
MaxImportExprs == 4
MaxPadded == 1
\* deeper than any expansion that marks every path it enters
MaxDepth == 7

Text(f) == [kind |-> "text", name |-> f, pad |-> FALSE]
Imp(path, pad) == [kind |-> "imp", name |-> path, pad |-> pad]
\* {{name}} (lit = "") or {{name|lit}}
Plain(name, lit) == [kind |-> "plain", name |-> name, lit |-> lit]
\* {{{name}}}
Raw(name) == [kind |-> "raw", name |-> name]
\* the front-matter line  default.name: value
DefaultLine(name, value) == [kind |-> "default", name |-> name, value |-> value]

\* the variables templates use
VarNames == {"n", "m"}
\* the text {{name}} of a plain placeholder without literal
Braced == [n \in VarNames |-> "{{" \o n \o "}}"]
\* a piece of text as the placeholder regular expressions see it: the text of a
\* placeholder is a placeholder, any other text of the model holds none
Scan(text) ==
    IF \E n \in VarNames : Braced[n] = text
    THEN <<Plain(CHOOSE n \in VarNames : Braced[n] = text, "")>>
    ELSE <<Text(text)>>
\* value, ok := m[k]
Lookup(m, k) == IF k \in DOMAIN m THEN m[k] ELSE Unset

\* the import expressions of a body
ImportsOf(content) == SelectSeq(content, LAMBDA tok : tok.kind = "imp")

\* the occurrences of expression old that strings.ReplaceAll replaces
Occurrences(content, old) == Len(SelectSeq(content, LAMBDA tok : tok = old))

\* strings.ReplaceAll(content, old, new) for one expression old
RECURSIVE ReplaceAll(_, _, _)
ReplaceAll(content, old, new) ==
    IF content = <<>> THEN <<>>
    ELSE (IF Head(content) = old THEN new ELSE <<Head(content)>>)
            \o ReplaceAll(Tail(content), old, new)

\* extractImports: the paths of the import expressions, in order, blanks trimmed
\* mutant of extractImports: no import expression is ever found
extractImports_none(content) == <<>>
extractImports(content) ==
    [i \in 1..Len(ImportsOf(content)) |-> ImportsOf(content)[i].name]

\* "{{@" + importPath + "}}"
fullMatchOf(importPath) == Imp(importPath, FALSE)

\* the nested placeholders of an import path are replaced from the call's vars
resolvePlaceholders(importPath, callVars) ==
    IF importPath = Dyn /\ Lookup(callVars, DynVar) # Unset THEN callVars[DynVar]
    ELSE IF \E n \in VarNames : importPath = Braced[n] /\ Lookup(callVars, n) # Unset
    THEN callVars[CHOOSE n \in VarNames : importPath = Braced[n]]
    ELSE importPath

\* strings.HasSuffix(name, ".md"), and the suffix being added when it is missing
HasSuffixMd(name) == name \in {n \o ".md" : n \in PathTexts}
EnsureMd(name) == IF HasSuffixMd(name) THEN name ELSE name \o ".md"

\* errors
NoErr == [kind |-> "none", ImportPath |-> "", Template |-> "", Variable |-> <<>>]
ImportError(importPath, template, cause) ==
    [kind |-> cause, ImportPath |-> importPath, Template |-> template,
     Variable |-> <<>>]
TemplateNotFoundError(path) ==
    [kind |-> "notfound", ImportPath |-> path, Template |-> "", Variable |-> <<>>]
\* VariableError{Variable: strings.Join(missingVars, ", "), Template: "current"}
VariableError(missingVars) ==
    [kind |-> "variable", ImportPath |-> "", Template |-> "current",
     Variable |-> missingVars]

\* parseFrontMatter: the leading front-matter lines give the defaults (a later
\* line for the same name replaces an earlier one), the rest is the content
RECURSIVE FrontLen(_)
FrontLen(file) ==
    IF file = <<>> \/ Head(file).kind # "default" THEN 0
    ELSE 1 + FrontLen(Tail(file))
parseFrontMatter(file) ==
    LET k == FrontLen(file)
        lines(n) == {i \in 1..k : file[i].name = n}
    IN  [defaults |-> [n \in VarNames |->
                          IF lines(n) = {} THEN Unset
                          ELSE file[CHOOSE i \in lines(n) :
                                       \A j \in lines(n) : j <= i].value],
         content  |-> SubSeq(file, k + 1, Len(file))]

\* the cache is used whatever the options say
useCache_always(e, opts) == e.cache
\* e.cache != nil && !opts.DisableCache
useCache(e, opts) == e.cache /\ ~opts.disableCache

\* the parsedTemplate that Open and parseFrontMatter give for a file
parsedTemplate(dir, path) ==
    [content  |-> parseFrontMatter(dir[path]).content,
     defaults |-> parseFrontMatter(dir[path]).defaults]
NoDefaults == [n \in VarNames |-> Unset]

\* cache.get as one call: both critical sections, nothing in between
get(c, key, fileModTime) ==
    IF getLookup(c, key) = Nil
    THEN [c |-> c, template |-> Nil, ok |-> FALSE]
    ELSE getLocked(c, getLookup(c, key), key, fileModTime)

\* loadTemplate as one call.  e is the engine as the call sees it: whether it
\* has a cache, and the ModTime Stat gives for a file; c is the cache.  The
\* result holds the cache after the call and whether the cache served it.
loadTemplate(dir, e, c, path, opts) ==
    IF path \notin DOMAIN dir
    THEN [err |-> TemplateNotFoundError(path), content |-> <<>>,
          defaults |-> NoDefaults, c |-> c, hit |-> FALSE]
    ELSE IF useCache(e, opts)
    THEN LET cached == get(c, path, e.ModTime[path])
         IN  IF cached.ok
             THEN [err |-> NoErr, content |-> cached.template.content,
                   defaults |-> cached.template.defaults, c |-> cached.c,
                   hit |-> TRUE]
             ELSE [err |-> NoErr, content |-> parsedTemplate(dir, path).content,
                   defaults |-> parsedTemplate(dir, path).defaults,
                   c |-> put(cached.c, path, parsedTemplate(dir, path),
                             e.ModTime[path],
                             NewElem(cached.c.entries, cached.c.lru, <<>>)),
                   hit |-> FALSE]
    ELSE [err |-> NoErr, content |-> parsedTemplate(dir, path).content,
          defaults |-> parsedTemplate(dir, path).defaults, c |-> c, hit |-> FALSE]

\* processed[fullImportPath]
isProcessed_never(processed, path) == FALSE
isProcessed(processed, path) == path \in processed

\* processImportsRecursive.  st is [content, processed, c, err, loads, inlined]:
\* the body as rewritten so far, the processed map (shared by the whole call),
\* the cache, the error returned, if any, and the record of what the expansion
\* did: the paths loadTemplate was called on and, per occurrence replaced, the
\* paths whose expanded bodies were written into a body.  opts holds the options and the variables of
\* the call.  An expansion deeper than MaxDepth is reported as the error
\* "depth": the recursion would not have ended.
RECURSIVE processImportsRecursive(_, _, _, _, _, _, _, _)
RECURSIVE importLoop(_, _, _, _, _, _, _, _)
importLoop(dir, e, imports, i, st, opts, currentTemplate, depth) ==
    IF i > Len(imports) THEN st
    ELSE
      LET fullMatch == fullMatchOf(imports[i])
          importPath == EnsureMd(resolvePlaceholders(imports[i], opts.vars))
      IN
      IF isProcessed(st.processed, importPath)
      THEN IF opts.strict
           THEN [st EXCEPT !.content = <<>>,
                           !.err = ImportError(importPath, currentTemplate, "circular")]
           ELSE importLoop(dir, e, imports, i + 1,
                           [st EXCEPT !.content = ReplaceAll(@, fullMatch, <<>>)],
                           opts, currentTemplate, depth)
      ELSE
        LET marked == st.processed \cup {importPath}
            importedTemplate == loadTemplate(dir, e, st.c, importPath, opts)
        IN
        IF importedTemplate.err # NoErr
        THEN IF opts.strict
             THEN [content |-> <<>>, processed |-> marked, c |-> importedTemplate.c,
                   err |-> ImportError(importPath, currentTemplate, "load"),
                   loads |-> Append(st.loads, importPath), inlined |-> st.inlined]
             ELSE importLoop(dir, e, imports, i + 1,
                             [st EXCEPT !.processed = marked,
                                        !.c = importedTemplate.c,
                                        !.loads = Append(@, importPath)],
                             opts, currentTemplate, depth)
        ELSE
          LET sub == processImportsRecursive(dir, e, importedTemplate.content, marked,
                                             importedTemplate.c, opts, importPath,
                                             depth + 1)
          IN
          IF sub.err # NoErr
          THEN [sub EXCEPT !.content = <<>>,
                           !.loads = Append(st.loads, importPath) \o @,
                           !.inlined = st.inlined \o @]
          ELSE importLoop(dir, e, imports, i + 1,
                          [content |-> ReplaceAll(st.content, fullMatch, sub.content),
                           processed |-> sub.processed, c |-> sub.c, err |-> NoErr,
                           loads |-> Append(st.loads, importPath) \o sub.loads,
                           inlined |-> st.inlined \o sub.inlined \o
                                       [n \in 1..Occurrences(st.content, fullMatch)
                                           |-> importPath]],
                          opts, currentTemplate, depth)

processImportsRecursive(dir, e, content, processed, c, opts, currentTemplate, depth) ==
    IF depth > MaxDepth
    THEN [content |-> <<>>, processed |-> processed, c |-> c,
          err |-> ImportError("", currentTemplate, "depth"),
          loads |-> <<>>, inlined |-> <<>>]
    ELSE importLoop(dir, e, extractImports(content), 1,
                    [content |-> content, processed |-> processed, c |-> c,
                     err |-> NoErr, loads |-> <<>>, inlined |-> <<>>],
                    opts, currentTemplate, depth)

\* processImports: a fresh processed map for the call
processImports(dir, e, content, c, opts, currentTemplate) ==
    processImportsRecursive(dir, e, content, {}, c, opts, currentTemplate, 1)

\* the first pass of substituteVariables: a raw placeholder whose variable has a
\* value is replaced by the value, any other stays; the result is the text the
\* second pass reads
RECURSIVE rawPass(_, _)
rawPass(content, mergedVars) ==
    IF content = <<>> THEN <<>>
    ELSE (IF Head(content).kind = "raw" /\ Lookup(mergedVars, Head(content).name) # Unset
          THEN Scan(Lookup(mergedVars, Head(content).name))
          ELSE <<Head(content)>>)
         \o rawPass(Tail(content), mergedVars)

\* what placeholderRegex matches: a plain placeholder, and the first characters
\* of a raw placeholder the first pass left ({{{name}} , read as the name {name)
IsMatch(tok) == tok.kind \in {"plain", "raw"}
varNameOf(tok) == IF tok.kind = "raw" THEN "{" \o tok.name ELSE tok.name
defaultValueOf(tok) == IF tok.kind = "plain" THEN tok.lit ELSE ""
\* the inline literal taken before the value
Resolve_literalFirst(tok, mergedVars) ==
    IF defaultValueOf(tok) # "" THEN defaultValueOf(tok)
    ELSE Lookup(mergedVars, varNameOf(tok))
\* the replacement of a match: the value in vars, else the inline literal when
\* it is not empty, else none
Resolve(tok, mergedVars) ==
    IF Lookup(mergedVars, varNameOf(tok)) # Unset THEN Lookup(mergedVars, varNameOf(tok))
    ELSE IF defaultValueOf(tok) # "" THEN defaultValueOf(tok)
    ELSE Unset

\* nothing is missing for a call that is not strict
missingVars_unlessLenient(content, mergedVars, opts) ==
    IF opts.allowMissing \/ ~opts.strict THEN <<>>
    ELSE LET missed == SelectSeq(content,
                           LAMBDA tok : IsMatch(tok) /\ Resolve(tok, mergedVars) = Unset)
         IN  [i \in 1..Len(missed) |-> varNameOf(missed[i])]
\* only the first missing name reported
missingVars_first(content, mergedVars, opts) ==
    IF opts.allowMissing THEN <<>>
    ELSE LET missed == SelectSeq(content,
                           LAMBDA tok : IsMatch(tok) /\ Resolve(tok, mergedVars) = Unset)
         IN  IF missed = <<>> THEN <<>> ELSE <<varNameOf(missed[1])>>
\* the names appended to missingVars, in the order of the matches
missingVars(content, mergedVars, opts) ==
    IF opts.allowMissing THEN <<>>
    ELSE LET missed == SelectSeq(content,
                           LAMBDA tok : IsMatch(tok) /\ Resolve(tok, mergedVars) = Unset)
         IN  [i \in 1..Len(missed) |-> varNameOf(missed[i])]

\* a match without replacement rendered as empty text
plainPass_blankMissing(content, mergedVars) ==
    [i \in 1..Len(content) |->
        IF IsMatch(content[i])
        THEN Text(IF Resolve(content[i], mergedVars) # Unset
                  THEN Resolve(content[i], mergedVars) ELSE "")
        ELSE content[i]]
\* the second pass: a match with a replacement is replaced, a match without one
\* is kept, an import expression and text are not touched
plainPass(content, mergedVars) ==
    [i \in 1..Len(content) |->
        IF IsMatch(content[i]) /\ Resolve(content[i], mergedVars) # Unset
        THEN Text(Resolve(content[i], mergedVars))
        ELSE content[i]]

\* substituteVariables
substituteVariables(content, mergedVars, opts) ==
    LET scanned == rawPass(content, mergedVars)
        missing == missingVars(scanned, mergedVars, opts)
    IN  IF Len(missing) > 0 /\ ~opts.allowMissing
        THEN [err |-> VariableError(missing), content |-> <<>>]
        ELSE [err |-> NoErr, content |-> plainPass(scanned, mergedVars)]

\* the defaults left out
Merge_callOnly(defaults, callVars) == callVars
\* mergedVars: the defaults of the root template, then the variables of the call
\* over them
Merge(defaults, callVars) ==
    [k \in (DOMAIN defaults) \cup (DOMAIN callVars) |->
        IF Lookup(callVars, k) # Unset THEN callVars[k] ELSE Lookup(defaults, k)]

\* generateInternal, up to the substitution: the error or the content and the
\* metadata it returns, the cache it leaves and whether the cache served the root
generateInternal(dir, e, c, name, opts) ==
    LET file == EnsureMd(name)
        template == loadTemplate(dir, e, c, file, opts)
    IN  IF template.err # NoErr
        THEN [err |-> template.err, content |-> <<>>, metadata |-> NoDefaults,
              c |-> template.c, hit |-> template.hit,
              loads |-> <<file>>, inlined |-> <<>>]
        ELSE LET r == processImports(dir, e, template.content, template.c, opts, file)
             IN  IF r.err # NoErr
                 THEN [err |-> r.err, content |-> <<>>, metadata |-> NoDefaults,
                       c |-> r.c, hit |-> template.hit,
                       loads |-> <<file>> \o r.loads, inlined |-> r.inlined]
                 ELSE LET out == substituteVariables(r.content,
                                     Merge(template.defaults, opts.vars), opts)
                      IN  [err |-> out.err, content |-> out.content,
                           metadata |-> IF out.err = NoErr THEN template.defaults
                                        ELSE NoDefaults,
                           c |-> r.c, hit |-> template.hit,
                           loads |-> <<file>> \o r.loads, inlined |-> r.inlined]

\* the text of a body
Render(content) ==
    [i \in 1..Len(content) |->
        CASE content[i].kind = "text" -> content[i].name
          [] content[i].kind = "plain" ->
                IF content[i].lit = "" THEN "{{" \o content[i].name \o "}}"
                ELSE "{{" \o content[i].name \o "|" \o content[i].lit \o "}}"
          [] content[i].kind = "raw" -> "{{{" \o content[i].name \o "}}}"
          [] content[i].kind = "imp" ->
                IF content[i].pad THEN "{{@ " \o content[i].name \o " }}"
                ELSE "{{@" \o content[i].name \o "}}"
          [] content[i].kind = "default" ->
                "# default." \o content[i].name \o ": " \o content[i].value]

\* nothing rendered yet, or the directory was edited since
NoRes == [root |-> "", strict |-> FALSE, allowMissing |-> FALSE,
          disableCache |-> FALSE, vars |-> [n \in {DynVar} |-> Unset],
          err |-> NoErr, content |-> <<>>, metadata |-> NoDefaults]

\* the import expressions written with blanks, in the whole directory
Padded(dir) ==
    Cardinality({<<f, i>> \in (DOMAIN dir) \X (1..(MaxImports + 1)) :
                    i <= Len(dir[f]) /\ dir[f][i].kind = "imp" /\ dir[f][i].pad})
\* the import expressions in the whole directory
NumImports(dir) ==
    Cardinality({<<f, i>> \in (DOMAIN dir) \X (1..(MaxImports + 1)) :
                    i <= Len(dir[f]) /\ dir[f][i].kind = "imp"})

\* the step that wrote a template file
Written == Step("write", Nil, Nil, Nil, TRUE, Nil, Nil)

\* a template file gets one more import expression at its end; its ModTime
\* moves on
AddImport(f, path, pad) ==
    /\ Len(ImportsOf(fs[f])) < MaxImports
    /\ NumImports(fs) < MaxImportExprs
    /\ pad => Padded(fs) < MaxPadded
    /\ fs' = [fs EXCEPT ![f] = Append(@, Imp(path, pad))]
    /\ fileVer' = [fileVer EXCEPT ![f] = @ + 1]
    /\ res' = NoRes
    /\ last' = Written
    /\ UNCHANGED <<engine, entries, lru, items, maxSize, cacheSize, pc, loc, recent>>

\* install the cache a call leaves.  No goroutine is inside the cache between
\* two calls, so every element is in the list and is named by its place in it.
InstallCache(c) ==
    \E R \in {Rename(c.lru)} :
        /\ entries' = [k \in DOMAIN c.entries |-> R[c.entries[k]]]
        /\ lru' = [i \in 1..Len(c.lru) |-> R[c.lru[i]]]
        /\ items' = [n \in 1..Len(c.lru) |-> c.items[c.lru[n]]]
        /\ maxSize' = c.maxSize

\* the engine as a call sees it
Engine == [cache |-> engine.cache, ModTime |-> fileVer]

\* Generate, one call at a time
Generate(name, callVars, opts) ==
    /\ \E r \in {generateInternal(fs, Engine, Cache, name,
                      [strict |-> opts.strict, allowMissing |-> opts.allowMissing,
                       disableCache |-> opts.disableCache, vars |-> callVars])} :
          /\ res' = [root |-> name, strict |-> opts.strict,
                     allowMissing |-> opts.allowMissing,
                     disableCache |-> opts.disableCache, vars |-> callVars,
                     err |-> r.err, content |-> r.content, metadata |-> r.metadata]
          /\ InstallCache(r.c)
          /\ last' = Step("Generate", name, Nil, Nil, r.hit, Nil, 61)
    /\ UNCHANGED <<engine, cacheSize, pc, loc, recent, fileVer, fs>>

\* every template file holds its own text and no import yet; the renders of
\* this specification bypass the cache
InitImp ==
    /\ entries = <<>>
    /\ lru = <<>>
    /\ items = <<>>
    /\ cacheSize = CacheSize
    /\ maxSize = newTemplateCache(cacheSize)
    /\ pc = [p \in Procs |-> "idle"]
    /\ loc = [p \in Procs |-> NoLoc]
    /\ last = Step("new", Nil, Nil, Nil, TRUE, Nil, 193)
    /\ recent = <<>>
    /\ fileVer = [f \in Files |-> 1]
    /\ fs = [f \in Files |-> <<Text(f)>>]
    /\ res = NoRes
    /\ engine = New([CacheSize |-> cacheSize, EnableCache |-> TRUE])

NextImp ==
    \/ \E f \in Editable, path \in PathTexts, pad \in BOOLEAN : AddImport(f, path, pad)
    \/ \E name \in Roots, callVars \in VarsSet, strict \in BOOLEAN :
          Generate(name, callVars, [strict |-> strict, allowMissing |-> FALSE,
                                    disableCache |-> TRUE])

SpecImp == InitImp /\ [][NextImp]_vars

(***************************************************************************)
(* Variable substitution: the template a.md gets front-matter defaults and *)
(* placeholders, and is rendered with the variables and the options of a   *)
(* call.                                                                   *)
(***************************************************************************)
MaxPlaceholders == 2
SubFile == "a.md"
\* the value a front-matter line gives, the literal a placeholder carries, the
\* values a caller passes (one of them reads as a placeholder)
DefaultValue == "X"
Literal == "L"
CallValues == {"V", Braced["m"]}
Placeholders ==
    {Plain(n, lit) : n \in VarNames, lit \in {"", Literal}} \cup {Raw(n) : n \in VarNames}
SubVarsSet ==
    {cv \in [VarNames \cup {DynVar} -> CallValues \cup {Unset}] : cv[DynVar] = Unset}

\* the body gets one more placeholder at its end
AddPlaceholder(tok) ==
    /\ Len(SelectSeq(fs[SubFile], IsMatch)) < MaxPlaceholders
    /\ fs' = [fs EXCEPT ![SubFile] = Append(@, tok)]
    /\ fileVer' = [fileVer EXCEPT ![SubFile] = @ + 1]
    /\ res' = NoRes
    /\ last' = Written
    /\ UNCHANGED <<engine, entries, lru, items, maxSize, cacheSize, pc, loc, recent>>

\* the front matter gets a line with the default of a variable that has none
AddDefault(n) ==
    /\ parseFrontMatter(fs[SubFile]).defaults[n] = Unset
    /\ fs' = [fs EXCEPT ![SubFile] = <<DefaultLine(n, DefaultValue)>> \o @]
    /\ fileVer' = [fileVer EXCEPT ![SubFile] = @ + 1]
    /\ res' = NoRes
    /\ last' = Written
    /\ UNCHANGED <<engine, entries, lru, items, maxSize, cacheSize, pc, loc, recent>>

NextSub ==
    \/ \E tok \in Placeholders : AddPlaceholder(tok)
    \/ \E n \in VarNames : AddDefault(n)
    \/ \E callVars \in SubVarsSet, allowMissing \in BOOLEAN :
          Generate("a", callVars, [strict |-> FALSE, allowMissing |-> allowMissing,
                                   disableCache |-> TRUE])

SpecSub == InitImp /\ [][NextSub]_vars

(***************************************************************************)
(* The options of a call: a.md gets placeholders and imports of a template *)
(* that does not exist, and an existing and a missing root are rendered in *)
(* every setting of StrictMode and AllowMissingVars.                       *)
(***************************************************************************)
OptTokens == {Plain("n", ""), Plain("n", Literal), Raw("n")}
OptVarsSet == {cv \in SubVarsSet : cv["m"] = Unset /\ cv["n"] \in {Unset, "V"}}

NextOpts ==
    \/ \E tok \in OptTokens : AddPlaceholder(tok)
    \/ AddImport(SubFile, "x", FALSE)
    \/ \E name \in Roots, callVars \in OptVarsSet, strict, allowMissing \in BOOLEAN :
          Generate(name, callVars, [strict |-> strict, allowMissing |-> allowMissing,
                                    disableCache |-> TRUE])

SpecOpts == InitImp /\ [][NextOpts]_vars

(***************************************************************************)
(* Renders through the cache: an engine made by New, with or without       *)
(* EnableCache in its Config, renders a.md while a.md and b.md get imports *)
(* (static ones and the dynamic {{@{{v}}}}) and the cache is cleared.       *)
(***************************************************************************)
GenEditable == {"a.md", "b.md"}
GenPaths == {Dyn, "b", "d"}
GenVarsSet == {[n \in {DynVar} |-> val] : val \in {Unset, "b", "d"}}

InitGen ==
    /\ entries = <<>>
    /\ lru = <<>>
    /\ items = <<>>
    /\ cacheSize = CacheSize
    /\ \E enable \in BOOLEAN :
          engine = New([CacheSize |-> cacheSize, EnableCache |-> enable])
    /\ maxSize = newTemplateCache(engine.config.CacheSize)
    /\ pc = [p \in Procs |-> "idle"]
    /\ loc = [p \in Procs |-> NoLoc]
    /\ last = Step("new", Nil, Nil, Nil, TRUE, Nil, 193)
    /\ recent = <<>>
    /\ fileVer = [f \in Files |-> 1]
    /\ fs = [f \in Files |-> <<Text(f)>>]
    /\ res = NoRes

NextGen ==
    \/ \E f \in GenEditable, path \in GenPaths : AddImport(f, path, FALSE)
    \/ \E name \in Roots, callVars \in GenVarsSet, strict, disableCache \in BOOLEAN :
          Generate(name, callVars, [strict |-> strict, allowMissing |-> FALSE,
                                    disableCache |-> disableCache])
    \/ ClearCache

SpecGen == InitGen /\ [][NextGen]_vars

(***************************************************************************)
(* String templates: the package-level Generate and GenerateWithMetadata   *)
(* hand the template text to an engine over stringSource, whose Open gives *)
(* the path back as the content.  That engine is made without cache        *)
(* (DevMode) and refuses a string template that holds an import, before    *)
(* any import is expanded.                                                 *)
(***************************************************************************)
MaxStringLen == 2
StringTokens ==
    {Text("T"), Imp("b", FALSE), Imp("b", TRUE), Imp(Dyn, FALSE), Plain("n", ""),
     Plain("n", Literal), Raw("n"), DefaultLine("n", DefaultValue)}
StringTemplates == UNION {[1..k -> StringTokens] : k \in 0..MaxStringLen}
StringVarsSet == [VarNames \cup {DynVar} -> {Unset, "V"}]

\* stringSource.Open: the reader gives the path itself
stringOpen(path) == path

\* the error of a string template that holds an import
UnsupportedError ==
    [kind |-> "unsupported", ImportPath |-> "", Template |-> "", Variable |-> <<>>]

\* the string engine rendering content: load, refuse imports, merge the
\* defaults beneath the variables, substitute
generateString(content, callVars, opts) ==
    LET template == parseFrontMatter(stringOpen(content))
    IN  IF extractImports(template.content) # <<>>
        THEN [err |-> UnsupportedError, content |-> <<>>, metadata |-> NoDefaults]
        ELSE LET out == substituteVariables(template.content,
                            Merge(template.defaults, callVars), opts)
             IN  [err |-> out.err, content |-> out.content,
                  metadata |-> IF out.err = NoErr THEN template.defaults
                               ELSE NoDefaults]

\* GenerateWithMetadata(content, vars, opts) of the package; Generate is the
\* same call with the metadata dropped.  res holds the call before the step
\* and the call with what it returned after it.
StringGenerate ==
    /\ last.op = "new"
    /\ \E r \in {generateString(res.root, res.vars,
                      [strict |-> res.strict, allowMissing |-> res.allowMissing,
                       disableCache |-> res.disableCache])} :
          res' = [res EXCEPT !.err = r.err, !.content = r.content,
                             !.metadata = r.metadata]
    /\ last' = Step("Generate", Nil, Nil, Nil, FALSE, Nil, 81)
    /\ UNCHANGED <<engine, entries, lru, items, maxSize, cacheSize, pc, loc, recent,
                   fileVer, fs>>

\* any string template, variables and options
InitString ==
    /\ entries = <<>>
    /\ lru = <<>>
    /\ items = <<>>
    /\ cacheSize = CacheSize
    /\ maxSize = newTemplateCache(cacheSize)
    /\ pc = [p \in Procs |-> "idle"]
    /\ loc = [p \in Procs |-> NoLoc]
    /\ last = Step("new", Nil, Nil, Nil, TRUE, Nil, 193)
    /\ recent = <<>>
    /\ fileVer = <<>>
    /\ fs = <<>>
    /\ \E content \in StringTemplates, callVars \in StringVarsSet,
          strict, allowMissing, disableCache \in BOOLEAN :
          res = [root |-> content, strict |-> strict, allowMissing |-> allowMissing,
                 disableCache |-> disableCache, vars |-> callVars,
                 err |-> NoErr, content |-> <<>>, metadata |-> NoDefaults]
    /\ engine = New([CacheSize |-> cacheSize, EnableCache |-> TRUE])

NextString == StringGenerate

SpecString == InitString /\ [][NextString]_vars

(***************************************************************************)
(* Dynamic import paths in a template whose front matter has a default for *)
(* the nested name.                                                        *)
(***************************************************************************)
\* the nested placeholder of these paths, and its variable
PathVar == "n"
DynPaths == {Braced[PathVar], "b"}
DynEditable == {"a.md", "b.md"}
\* the call gives the variable no value, or the name of a template
DynVarsSet ==
    {cv \in [VarNames \cup {DynVar} -> {Unset, "b", "d"}] :
        \A k \in (VarNames \cup {DynVar}) \ {PathVar} : cv[k] = Unset}

\* the front matter of the root gets a default for the variable: the name of an
\* existing template
AddPathDefault ==
    /\ parseFrontMatter(fs[SubFile]).defaults[PathVar] = Unset
    /\ fs' = [fs EXCEPT ![SubFile] = <<DefaultLine(PathVar, "b")>> \o @]
    /\ fileVer' = [fileVer EXCEPT ![SubFile] = @ + 1]
    /\ res' = NoRes
    /\ last' = Written
    /\ UNCHANGED <<engine, entries, lru, items, maxSize, cacheSize, pc, loc, recent>>

NextDyn ==
    \/ \E f \in DynEditable, path \in DynPaths : AddImport(f, path, FALSE)
    \/ AddPathDefault
    \/ \E callVars \in DynVarsSet, strict \in BOOLEAN :
          Generate("a", callVars, [strict |-> strict, allowMissing |-> FALSE,
                                   disableCache |-> TRUE])

SpecDyn == InitImp /\ [][NextDyn]_vars

(***************************************************************************)
(* templateCache.mu made explicit.  A call is split at its lock            *)
(* operations: it calls RLock or Lock, is granted the lock, and runs its   *)
(* critical section up to the unlock.  The history variables last and      *)
(* recent are not kept here.                                               *)
(***************************************************************************)
\* the goroutines that hold mu for writing
writers == {p \in Procs : pc[p] \in {"get_held", "put_held", "clear_held"}}

\* the goroutines that have called mu.Lock and were not granted it yet
waiting == {p \in Procs : pc[p] \in {"get_lock", "put_lock", "clear_lock"}}

\* mutant of readers: get goes on to Lock without its RUnlock
readers_keptInGet == {p \in Procs : pc[p] \in {"get_rheld", "get_lock"}}

\* the goroutines that hold mu for reading
readers == {p \in Procs : pc[p] = "get_rheld"}

\* get is called: c.mu.RLock()
GetCall(p, key, t) ==
    /\ pc[p] = "idle"
    /\ pc' = [pc EXCEPT ![p] = "get_rlock"]
    /\ loc' = [loc EXCEPT ![p] = [NoLoc EXCEPT !.key = key, !.t = t]]
    /\ UNCHANGED <<engine, entries, lru, items, maxSize, cacheSize, last, recent,
                   fileVer, fs, res>>

\* RLock is granted: no writer holds mu and none is waiting for it
GetRLock(p) ==
    /\ pc[p] = "get_rlock"
    /\ writers = {} /\ waiting = {}
    /\ pc' = [pc EXCEPT ![p] = "get_rheld"]
    /\ UNCHANGED <<engine, entries, lru, items, maxSize, cacheSize, loc, last, recent,
                   fileVer, fs, res>>

\* the map lookup, RUnlock, and either the miss or c.mu.Lock()
GetRUnlock(p) ==
    /\ pc[p] = "get_rheld"
    /\ LET elem == getLookup(Cache, loc[p].key)
       IN  IF elem = Nil
           THEN /\ pc' = [pc EXCEPT ![p] = "idle"]
                /\ loc' = [loc EXCEPT ![p] = NoLoc]
                /\ UNCHANGED <<engine, entries, lru, items, maxSize, cacheSize,
                               last, recent, fileVer, fs, res>>
           ELSE /\ pc' = [pc EXCEPT ![p] = "get_lock"]
                /\ SetCache(Cache, [loc EXCEPT ![p].elem = elem])
                /\ UNCHANGED <<engine, last, recent, fileVer, fs, res>>

\* put is called: c.mu.Lock()
PutCall(p, key, doc, t) ==
    /\ pc[p] = "idle"
    /\ pc' = [pc EXCEPT ![p] = "put_lock"]
    /\ loc' = [loc EXCEPT ![p] = [NoLoc EXCEPT !.key = key, !.t = t, !.doc = doc]]
    /\ UNCHANGED <<engine, entries, lru, items, maxSize, cacheSize, last, recent,
                   fileVer, fs, res>>

\* clear is called: c.mu.Lock()
ClearCall(p) ==
    /\ pc[p] = "idle"
    /\ pc' = [pc EXCEPT ![p] = "clear_lock"]
    /\ UNCHANGED <<engine, entries, lru, items, maxSize, cacheSize, loc, last, recent,
                   fileVer, fs, res>>

\* Lock is granted: nobody holds mu
Lock(p) ==
    /\ p \in waiting
    /\ writers = {} /\ readers = {}
    /\ pc' = [pc EXCEPT ![p] = IF pc[p] = "get_lock" THEN "get_held"
                               ELSE IF pc[p] = "put_lock" THEN "put_held"
                               ELSE "clear_held"]
    /\ UNCHANGED <<engine, entries, lru, items, maxSize, cacheSize, loc, last, recent,
                   fileVer, fs, res>>

\* get under Lock: staleness check, removal or promotion, the deferred Unlock
GetUnlock(p) ==
    /\ pc[p] = "get_held"
    /\ \E r \in {getLocked(Cache, loc[p].elem, loc[p].key, loc[p].t)},
          lc \in {[loc EXCEPT ![p] = NoLoc]} :
           /\ SetCache(r.c, lc)
           /\ pc' = [pc EXCEPT ![p] = "idle"]
           /\ UNCHANGED <<engine, last, recent, fileVer, fs, res>>

\* put under Lock, the deferred Unlock
PutUnlock(p) ==
    /\ pc[p] = "put_held"
    /\ \E c \in {put(Cache, loc[p].key, loc[p].doc, loc[p].t, NewElem(entries, lru, loc))} :
           SetCache(c, [loc EXCEPT ![p] = NoLoc])
    /\ pc' = [pc EXCEPT ![p] = "idle"]
    /\ UNCHANGED <<engine, last, recent, fileVer, fs, res>>

\* clear under Lock, the deferred Unlock
ClearUnlock(p) ==
    /\ pc[p] = "clear_held"
    /\ SetCache(clear(Cache), loc)
    /\ pc' = [pc EXCEPT ![p] = "idle"]
    /\ UNCHANGED <<engine, last, recent, fileVer, fs, res>>

\* the keys the concurrent callers use: one more than the capacity of their cache
MuKeys == 1..CacheSize

\* a cache of capacity CacheSize - 1, nobody calling
InitMu ==
    /\ entries = <<>>
    /\ lru = <<>>
    /\ items = <<>>
    /\ cacheSize = CacheSize - 1
    /\ maxSize = newTemplateCache(cacheSize)
    /\ pc = [p \in Procs |-> "idle"]
    /\ loc = [p \in Procs |-> NoLoc]
    /\ last = Step("new", Nil, Nil, Nil, TRUE, Nil, 193)
    /\ recent = <<>>
    /\ fileVer = [f \in Paths |-> 1]
    /\ fs = <<>>
    /\ res = <<>>
    /\ engine = New([CacheSize |-> cacheSize, EnableCache |-> TRUE])

\* a goroutine that is in a call and not blocked runs on
Run(p) == GetRUnlock(p) \/ GetUnlock(p) \/ PutUnlock(p) \/ ClearUnlock(p)

NextMu ==
    \/ \E p \in Procs, key \in MuKeys, t \in Times : GetCall(p, key, t)
    \/ \E p \in Procs : GetRLock(p)
    \/ \E p \in Procs : GetRUnlock(p)
    \* a put hands over the template parsed from the file as of t
    \/ \E p \in Procs, key \in MuKeys, t \in Times : PutCall(p, key, t, t)
    \/ \E p \in Procs : ClearCall(p)
    \/ \E p \in Procs : Lock(p)
    \/ \E p \in Procs : GetUnlock(p)
    \/ \E p \in Procs : PutUnlock(p)
    \/ \E p \in Procs : ClearUnlock(p)

SpecMu == InitMu /\ [][NextMu]_vars

\* the scheduler runs every runnable goroutine; sync.RWMutex hands the lock to
\* a goroutine that keeps waiting for it (starvation mode, writers before new
\* readers)
FairMu ==
    /\ SpecMu
    /\ \A p \in Procs : WF_vars(Run(p))
    /\ \A p \in Procs : SF_vars(Lock(p)) /\ SF_vars(GetRLock(p))

(***************************************************************************)
(* parseFrontMatter, line by line.  A line is the sequence of its pieces   *)
(* ("# ", a word, ":", " ", ...); the reader is the sequence of the lines  *)
(* bufio.Scanner yields.                                                   *)
(***************************************************************************)
\* the longest input
MaxLines == 4

\* the delimiter line of the documentation
Delim == <<"---">>
\* the lines an input is made of
TextLines ==
    {Delim,
     <<"model", ":", " ", "gpt">>,
     <<"default.", "role", ":", " ", "helpful">>,
     <<"# ", "model", ":", " ", "gpt">>,
     <<"# ", "default.", "role", ":", " ", "helpful">>,
     <<"# ", "defaults", ":", " ", "x">>,
     <<"# ", "tokens", ":", " ", "7">>,
     <<"# ", "note">>,
     <<"text">>,
     <<>>}
Inputs == UNION {[1..k -> TextLines] : k \in 0..MaxLines}

\* strings.HasPrefix, strings.TrimPrefix
HasPrefix(s, prefix) == s # <<>> /\ s[1] = prefix
TrimPrefix(s, prefix) == IF HasPrefix(s, prefix) THEN Tail(s) ELSE s

\* strings.SplitN(s, sep, 2)
SplitN(s, sep) ==
    LET at == {i \in 1..Len(s) : s[i] = sep}
    IN  IF at = {} THEN <<s>>
        ELSE LET i == CHOOSE j \in at : \A k \in at : j <= k
             IN  <<SubSeq(s, 1, i - 1), SubSeq(s, i + 1, Len(s))>>

\* strings.TrimSpace
RECURSIVE TrimSpace(_)
TrimSpace(s) ==
    IF s = <<>> THEN s
    ELSE IF s[1] = " " THEN TrimSpace(Tail(s))
    ELSE IF s[Len(s)] = " " THEN TrimSpace(SubSeq(s, 1, Len(s) - 1))
    ELSE s

\* strconv.ParseFloat and the int / float64 / string choice of a value
\* (a numeral stands for its value in tenths; num == float64(int(num)) holds of
\* the whole numbers)
Numerals == ("7" :> 70) @@ ("1" :> 10) @@ ("0" :> 0) @@ ("0.7" :> 7)
metadataValue(value) ==
    IF Len(value) = 1 /\ value[1] \in DOMAIN Numerals
    THEN LET num == Numerals[value[1]]
         IN  IF num % 10 = 0 THEN [int |-> num \div 10] ELSE [float64 |-> num]
    ELSE [str |-> value]

\* contentBuilder: a newline before the line unless nothing was written yet
WriteLine(builder, line) ==
    IF builder = <<>> /\ line = <<>> THEN <<>> ELSE Append(builder, line)

\* strings.TrimRight(content, "\n")
RECURSIVE TrimRight(_)
TrimRight(content) ==
    IF content # <<>> /\ content[Len(content)] = <<>>
    THEN TrimRight(SubSeq(content, 1, Len(content) - 1))
    ELSE content

\* one front-matter line: "# key: value"
frontMatterLine(st, line) ==
    LET parts == SplitN(TrimPrefix(line, "# "), ":")
    IN  IF Len(parts) # 2 THEN st
        ELSE LET key   == TrimSpace(parts[1])
                 value == TrimSpace(parts[2])
             IN  IF HasPrefix(key, "default.")
                 THEN [st EXCEPT !.defaults = (TrimPrefix(key, "default.") :> value) @@ @]
                 ELSE [st EXCEPT !.top = (key :> metadataValue(value)) @@ @]

\* the scanner loop from line i on.  st.top: the keys assigned to metadata by
\* front-matter lines; st.defaults: the defaults map
RECURSIVE scanLoop(_, _, _)
scanLoop(lines, i, st) ==
    IF i > Len(lines) THEN st
    ELSE IF st.inFrontMatter /\ HasPrefix(lines[i], "# ")
         THEN scanLoop(lines, i + 1, frontMatterLine(st, lines[i]))
         ELSE scanLoop(lines, i + 1,
                       [st EXCEPT !.inFrontMatter = FALSE,
                                  !.content = WriteLine(@, lines[i])])

\* parseFrontMatter: metadata["defaults"] is the defaults map unless a
\* front-matter line assigned that key
parseFrontMatterLines(lines) ==
    LET st == scanLoop(lines, 1, [top |-> <<>>, defaults |-> <<>>, content |-> <<>>,
                                  inFrontMatter |-> TRUE])
    IN  [metadata |-> st.top @@ (<<"defaults">> :> [map |-> st.defaults]),
         content  |-> TrimRight(st.content)]

\* parseFrontMatter is called on the input
Parse ==
    /\ last.op = "new"
    /\ \E r \in {parseFrontMatterLines(res.input)} :
          res' = [res EXCEPT !.metadata = r.metadata, !.content = r.content]
    /\ last' = Step("parseFrontMatter", Nil, Nil, Nil, TRUE, Nil, 72)
    /\ UNCHANGED <<engine, entries, lru, items, maxSize, cacheSize, pc, loc, recent,
                   fileVer, fs>>

\* any input
InitParse ==
    /\ entries = <<>>
    /\ lru = <<>>
    /\ items = <<>>
    /\ cacheSize = CacheSize
    /\ maxSize = newTemplateCache(cacheSize)
    /\ pc = [p \in Procs |-> "idle"]
    /\ loc = [p \in Procs |-> NoLoc]
    /\ last = Step("new", Nil, Nil, Nil, TRUE, Nil, 193)
    /\ recent = <<>>
    /\ fileVer = <<>>
    /\ fs = <<>>
    /\ \E input \in Inputs : res = [input |-> input, metadata |-> <<>>, content |-> <<>>]
    /\ engine = New([CacheSize |-> cacheSize, EnableCache |-> TRUE])

NextParse == Parse

SpecParse == InitParse /\ [][NextParse]_vars

(***************************************************************************)
(* The caller of GenerateWithMetadata keeps the metadata map it was given  *)
(* and writes to it.  generateInternal returns template.metadata itself:   *)
(* when the template came from the cache or was put in it, the map of the  *)
(* caller and the map of the cached parsedTemplate are one Go map.         *)
(***************************************************************************)
\* the root of the last call, as the key of the cache
RootPath == EnsureMd(res.root)

\* the map the last call returned is the map of the cached template
Shared ==
    /\ useCache(Engine, [disableCache |-> res.disableCache])
    /\ RootPath \in DOMAIN entries

\* the caller sets an entry of the metadata it got from the last call
CallerEdit(n, value) ==
    /\ last.op = "Generate"
    /\ res.err = NoErr
    /\ res.metadata[n] # value
    /\ res' = [res EXCEPT !.metadata[n] = value]
    /\ items' = IF Shared
                THEN [items EXCEPT ![entries[RootPath]].template.defaults[n] = value]
                ELSE items
    /\ last' = Step("edit", res.root, Nil, Nil, Shared, Nil, 126)
    /\ UNCHANGED <<engine, entries, lru, maxSize, cacheSize, pc, loc, recent,
                   fileVer, fs>>

\* renders of a template without imports, with and without the cache
NextAlias ==
    \/ \E n \in VarNames : AddDefault(n)
    \/ AddPlaceholder(Plain("n", ""))
    \/ \E callVars \in OptVarsSet, disableCache \in BOOLEAN :
          Generate("a", callVars, [strict |-> FALSE, allowMissing |-> TRUE,
                                   disableCache |-> disableCache])
    \/ \E n \in VarNames : CallerEdit(n, "V")
    \/ ClearCache

SpecAlias == InitImp /\ [][NextAlias]_vars

(***************************************************************************)
(* Generate calls of several goroutines, interleaved between the entries   *)
(* of the import list of the root.  A call keeps its position in loc: the  *)
(* body as rewritten so far, the list of imports, the index of the next    *)
(* entry and its processed map.  The calls bypass the cache.               *)
(***************************************************************************)
CallRoots == {"a", "b"}
CallEditable == {"a.md", "b.md"}
CallPaths == {"b", "d"}

\* the options of the call of goroutine p
callOpts(p) ==
    [strict |-> loc[p].strict, allowMissing |-> FALSE, disableCache |-> TRUE,
     vars |-> loc[p].vars]

\* mutant of visited: one processed map for all calls
visited_shared(p) ==
    UNION {loc[q].processed : q \in {r \in Procs : pc[r] = "imports"}}

\* the processed map the call of goroutine p works with
visited(p) == loc[p].processed

\* the call of p returns
Return(p, err, content, metadata) ==
    /\ res' = [root |-> loc'[p].root, strict |-> loc'[p].strict, allowMissing |-> FALSE,
               disableCache |-> TRUE, vars |-> loc'[p].vars,
               err |-> err, content |-> content, metadata |-> metadata]
    /\ last' = Step("Generate", loc'[p].root, Nil, Nil, FALSE, Nil, 61)
    /\ pc' = [pc EXCEPT ![p] = "idle"]

\* Generate is called: the root is loaded, processImports makes the processed
\* map and extracts the imports of the root
GenerateCall(p, name, callVars, strict) ==
    /\ pc[p] = "idle"
    /\ \E template \in {loadTemplate(fs, Engine, Cache, EnsureMd(name),
                                     [disableCache |-> TRUE])} :
          /\ loc' = [loc EXCEPT ![p] =
                        [root |-> name, vars |-> callVars, strict |-> strict,
                         content |-> template.content, defaults |-> template.defaults,
                         imports |-> extractImports(template.content), i |-> 1,
                         processed |-> {}]]
          /\ IF template.err # NoErr
             THEN Return(p, template.err, <<>>, NoDefaults)
             ELSE /\ pc' = [pc EXCEPT ![p] = "imports"]
                  /\ UNCHANGED <<res, last>>
    /\ UNCHANGED <<engine, entries, lru, items, maxSize, cacheSize, recent, fileVer, fs>>

\* one entry of the import list of the root, the templates below it included
ImportEntry(p) ==
    /\ pc[p] = "imports"
    /\ loc[p].i <= Len(loc[p].imports)
    /\ \E st \in {importLoop(fs, Engine, <<loc[p].imports[loc[p].i]>>, 1,
                             [content |-> loc[p].content, processed |-> visited(p),
                              c |-> Cache, err |-> NoErr, loads |-> <<>>,
                              inlined |-> <<>>],
                             callOpts(p), EnsureMd(loc[p].root), 1)} :
          /\ loc' = [loc EXCEPT ![p].content = st.content,
                                ![p].processed = loc[p].processed \cup st.processed,
                                ![p].i = @ + 1]
          /\ IF st.err # NoErr
             THEN Return(p, st.err, <<>>, NoDefaults)
             ELSE UNCHANGED <<pc, res, last>>
    /\ UNCHANGED <<engine, entries, lru, items, maxSize, cacheSize, recent, fileVer, fs>>

\* the import list is done: the variables are substituted and the call returns
GenerateReturn(p) ==
    /\ pc[p] = "imports"
    /\ loc[p].i > Len(loc[p].imports)
    /\ loc' = loc
    /\ \E out \in {substituteVariables(loc[p].content,
                                       Merge(loc[p].defaults, loc[p].vars),
                                       callOpts(p))} :
          Return(p, out.err, out.content,
                 IF out.err = NoErr THEN loc[p].defaults ELSE NoDefaults)
    /\ UNCHANGED <<engine, entries, lru, items, maxSize, cacheSize, recent, fileVer, fs>>

\* the templates are edited while no call is running
NextCalls ==
    \/ \E f \in CallEditable, path \in CallPaths :
          (\A p \in Procs : pc[p] = "idle") /\ AddImport(f, path, FALSE)
    \/ \E p \in Procs, name \in CallRoots, strict \in BOOLEAN :
          GenerateCall(p, name, [n \in {DynVar} |-> Unset], strict)
    \/ \E p \in Procs : ImportEntry(p)
    \/ \E p \in Procs : GenerateReturn(p)

SpecCalls == InitImp /\ [][NextCalls]_vars

(***************************************************************************)
(* extractImports, character by character.  A content is written as a      *)
(* sequence of pieces and scanned as the sequence of their characters;     *)
(* positions count from 0 as in the code.                                  *)
(***************************************************************************)
\* the longest content, in pieces
MaxPieces == 6

\* the pieces a content is made of, each with its characters
Pieces ==
    {<<"{", "{", "@">>, <<"{", "{">>, <<"}", "}">>, <<"a">>, <<"b">>, <<" ">>}
Contents == UNION {[1..k -> Pieces] : k \in 0..MaxPieces}

\* the characters of a content
RECURSIVE Flatten(_)
Flatten(pieces) ==
    IF pieces = <<>> THEN <<>> ELSE Head(pieces) \o Flatten(Tail(pieces))

\* content[from:to]
Slice(content, from, to) == SubSeq(content, from + 1, to)

\* content[at:at+Len(text)] == text
HasAt(content, at, text) ==
    /\ at + Len(text) <= Len(content)
    /\ Slice(content, at, at + Len(text)) = text

\* start + strings.Index(content[start:], "{{@"), or -1
IndexImport(content, start) ==
    LET at == {i \in start..Len(content) : HasAt(content, i, <<"{", "{", "@">>)}
    IN  IF at = {} THEN -1 ELSE CHOOSE i \in at : \A j \in at : i <= j

\* the inner loop: the position after the }} that brings braceCount to 0, or
\* the end of the content
RECURSIVE findClose(_, _, _)
findClose(content, end, braceCount) ==
    IF ~(end < Len(content) /\ braceCount > 0)
    THEN [end |-> end, braceCount |-> braceCount]
    ELSE IF end + 1 < Len(content) /\ HasAt(content, end, <<"{", "{">>)
    THEN findClose(content, end + 2, braceCount + 1)
    ELSE IF end + 1 < Len(content) /\ HasAt(content, end, <<"}", "}">>)
    THEN findClose(content, end + 2, braceCount - 1)
    ELSE findClose(content, end + 1, braceCount)

\* the outer loop of extractImports
RECURSIVE extractLoop(_, _, _)
extractLoop(content, start, imports) ==
    LET idx == IndexImport(content, start)
        close == findClose(content, idx + 3, 1)
    IN  IF idx = -1 THEN imports
        ELSE extractLoop(content, close.end,
                 IF close.braceCount = 0
                 THEN Append(imports, TrimSpace(Slice(content, idx + 3, close.end - 2)))
                 ELSE imports)

\* extractImports on the characters of a content
extractImportsText(content) == extractLoop(content, 0, <<>>)

\* extractImports is called on the content
Extract ==
    /\ last.op = "new"
    /\ res' = [res EXCEPT !.imports = extractImportsText(Flatten(res.input))]
    /\ last' = Step("extractImports", Nil, Nil, Nil, TRUE, Nil, 179)
    /\ UNCHANGED <<engine, entries, lru, items, maxSize, cacheSize, pc, loc, recent,
                   fileVer, fs>>

\* any content
InitExtract ==
    /\ entries = <<>>
    /\ lru = <<>>
    /\ items = <<>>
    /\ cacheSize = CacheSize
    /\ maxSize = newTemplateCache(cacheSize)
    /\ pc = [p \in Procs |-> "idle"]
    /\ loc = [p \in Procs |-> NoLoc]
    /\ last = Step("new", Nil, Nil, Nil, TRUE, Nil, 193)
    /\ recent = <<>>
    /\ fileVer = <<>>
    /\ fs = <<>>
    /\ \E input \in Contents : res = [input |-> input, imports |-> <<>>]
    /\ engine = New([CacheSize |-> cacheSize, EnableCache |-> TRUE])

NextExtract == Extract

SpecExtract == InitExtract /\ [][NextExtract]_vars

(***************************************************************************)
(* The options of a call and the DefaultOptions of the engine.  opts is    *)
(* the variadic parameter: no GenerateOptions value or one.                *)
(***************************************************************************)
GenerateOptions == [strict : BOOLEAN, allowMissing : BOOLEAN, disableCache : BOOLEAN]
Variadic == {<<>>} \cup {<<o>> : o \in GenerateOptions}

\* mutant of optionsOf: a field the caller left at false is taken from
\* DefaultOptions
optionsOf_inherit(e, opts) ==
    IF Len(opts) > 0
    THEN [strict       |-> opts[1].strict \/ e.config.DefaultOptions.strict,
          allowMissing |-> opts[1].allowMissing \/ e.config.DefaultOptions.allowMissing,
          disableCache |-> opts[1].disableCache \/ e.config.DefaultOptions.disableCache]
    ELSE e.config.DefaultOptions

\* options := e.config.DefaultOptions; if len(opts) > 0 { options = opts[0] }
optionsOf(e, opts) == IF Len(opts) > 0 THEN opts[1] ELSE e.config.DefaultOptions

\* Generate / GenerateWithMetadata with the variadic parameter
GenerateWith(name, callVars, opts) ==
    /\ \E r \in {generateInternal(fs, Engine, Cache, name,
                      [strict |-> optionsOf(engine, opts).strict,
                       allowMissing |-> optionsOf(engine, opts).allowMissing,
                       disableCache |-> optionsOf(engine, opts).disableCache,
                       vars |-> callVars])} :
          /\ res' = [root |-> name, opts |-> opts, vars |-> callVars,
                     err |-> r.err, content |-> r.content, metadata |-> r.metadata]
          /\ InstallCache(r.c)
          /\ last' = Step("Generate", name, Nil, Nil, r.hit, Nil, 61)
    /\ UNCHANGED <<engine, cacheSize, pc, loc, recent, fileVer, fs>>

\* an engine made with any DefaultOptions
InitDefaults ==
    /\ entries = <<>>
    /\ lru = <<>>
    /\ items = <<>>
    /\ cacheSize = CacheSize
    /\ maxSize = newTemplateCache(cacheSize)
    /\ pc = [p \in Procs |-> "idle"]
    /\ loc = [p \in Procs |-> NoLoc]
    /\ last = Step("new", Nil, Nil, Nil, TRUE, Nil, 193)
    /\ recent = <<>>
    /\ fileVer = [f \in Files |-> 1]
    /\ fs = [f \in Files |-> <<Text(f)>>]
    /\ res = NoRes
    /\ \E d \in GenerateOptions :
          engine = New([CacheSize |-> cacheSize, EnableCache |-> TRUE,
                        DefaultOptions |-> d])

\* the root gets a placeholder without value and an import of a template that
\* does not exist; it is rendered with and without options
NextDefaults ==
    \/ AddPlaceholder(Plain("n", ""))
    \/ AddImport(SubFile, "x", FALSE)
    \/ \E opts \in Variadic : GenerateWith("a", [k \in VarNames \cup {DynVar} |-> Unset], opts)

SpecDefaults == InitDefaults /\ [][NextDefaults]_vars

(***************************************************************************)
(* CallOptions on the metadata of a parsed front-matter.                   *)
(***************************************************************************)
\* the lines of a front-matter that sets the options of a call
OptionLines ==
    {<<"# ", "temperature", ":", " ", "1">>,
     <<"# ", "temperature", ":", " ", "0">>,
     <<"# ", "temperature", ":", " ", "0.7">>,
     <<"# ", "temperature", ":", " ", "warm">>,
     <<"# ", "model", ":", " ", "gpt">>,
     <<"# ", "max_tokens", ":", " ", "7">>,
     <<"text">>}
OptionInputs == UNION {[1..k -> OptionLines] : k \in 0..MaxLines}

\* CallOptions: the options come from the keys whose value has the asserted
\* type (a nil map has no keys and gives no options either)
CallOptions(metadata) ==
    LET has(key, type) ==
            <<key>> \in DOMAIN metadata /\ type \in DOMAIN metadata[<<key>>]
        model ==
            IF has("model", "str") /\ metadata[<<"model">>].str # <<>>
            THEN <<[opt |-> "WithModel", value |-> metadata[<<"model">>].str]>>
            ELSE <<>>
        temp ==
            IF has("temperature", "float64")
            THEN <<[opt |-> "WithTemperature",
                    value |-> metadata[<<"temperature">>].float64]>>
            ELSE <<>>
        maxTokens ==
            IF has("max_tokens", "int")
            THEN <<[opt |-> "WithMaxTokens", value |-> metadata[<<"max_tokens">>].int]>>
            ELSE <<>>
    IN  model \o temp \o maxTokens

\* CallOptions is called on the metadata parseFrontMatter returned
Options ==
    /\ last.op = "parseFrontMatter"
    /\ res' = [res EXCEPT !.opts = CallOptions(res.metadata)]
    /\ last' = Step("CallOptions", Nil, Nil, Nil, TRUE, Nil, 30)
    /\ UNCHANGED <<engine, entries, lru, items, maxSize, cacheSize, pc, loc, recent,
                   fileVer, fs>>

\* any front-matter of option lines
InitOptions ==
    /\ entries = <<>>
    /\ lru = <<>>
    /\ items = <<>>
    /\ cacheSize = CacheSize
    /\ maxSize = newTemplateCache(cacheSize)
    /\ pc = [p \in Procs |-> "idle"]
    /\ loc = [p \in Procs |-> NoLoc]
    /\ last = Step("new", Nil, Nil, Nil, TRUE, Nil, 193)
    /\ recent = <<>>
    /\ fileVer = <<>>
    /\ fs = <<>>
    /\ \E input \in OptionInputs :
          res = [input |-> input, metadata |-> <<>>, content |-> <<>>, opts |-> <<>>]
    /\ engine = New([CacheSize |-> cacheSize, EnableCache |-> TRUE])

NextOptions == Parse \/ Options

SpecOptions == InitOptions /\ [][NextOptions]_vars

(***************************************************************************)
(* FileSystemSource: Watch, StopWatch and the polling goroutines.  The     *)
(* k-th pair of channels made by Watch is chans[k]; a goroutine is named   *)
(* by the pair its Watch made.  Watch and StopWatch hold watchMutex for    *)
(* their whole body; pollChanges never takes it.                           *)
(***************************************************************************)
\* Watch makes channels at most this often
MaxWatches == 2
\* the paths one tick finds changed
MaxChanged == 1
\* the capacity of watchChan (make(chan string, 100))
WatchBuffer == 2

Pollers == 1..MaxWatches

\* the source before Watch was ever called
NewFileSystemSource ==
    [watching |-> FALSE, watchChan |-> Nil, stopWatch |-> Nil, chans |-> <<>>,
     panicked |-> FALSE]

\* the values a goroutine can read from s.stopWatch or s.watchChan: it reads
\* the field without the mutex, concurrently with the writes of later Watch
\* calls, so it sees the pair of its own Watch or any pair stored since
Visible(g) == g..Len(res.chans)

\* Watch: returns the current channel when watching, else makes the channels
\* and starts a polling goroutine
Watch ==
    /\ ~res.panicked
    /\ IF res.watching
       THEN UNCHANGED <<res, pc>>
       ELSE /\ Len(res.chans) < MaxWatches
            /\ LET g == Len(res.chans) + 1
               IN  /\ res' = [res EXCEPT
                                 !.chans = Append(@, [closed |-> FALSE, stopped |-> FALSE,
                                                      len |-> 0]),
                                 !.watchChan = g, !.stopWatch = g, !.watching = TRUE]
                   /\ pc' = [pc EXCEPT ![g] = "scan"]
    /\ last' = Step("Watch", Nil, Nil, Nil, TRUE, Nil, 121)
    /\ UNCHANGED <<engine, entries, lru, items, maxSize, cacheSize, loc, recent,
                   fileVer, fs>>

\* StopWatch: closes both channels of the current pair
StopWatch ==
    /\ ~res.panicked
    /\ IF ~res.watching
       THEN UNCHANGED res
       ELSE res' = [res EXCEPT !.chans[res.stopWatch].stopped = TRUE,
                               !.watching = FALSE,
                               !.chans[res.watchChan].closed = TRUE]
    /\ last' = Step("StopWatch", Nil, Nil, Nil, TRUE, Nil, 137)
    /\ UNCHANGED <<engine, entries, lru, items, maxSize, cacheSize, pc, loc, recent,
                   fileVer, fs>>

\* pollChanges, the initial scan and the ticker
InitialScan(g) ==
    /\ ~res.panicked
    /\ pc[g] = "scan"
    /\ pc' = [pc EXCEPT ![g] = "loop"]
    /\ UNCHANGED <<res, last, engine, entries, lru, items, maxSize, cacheSize, loc,
                   recent, fileVer, fs>>

\* pollChanges enters the select: s.stopWatch is evaluated
EnterSelect(g) ==
    /\ ~res.panicked
    /\ pc[g] = "loop"
    /\ \E k \in Visible(g) : loc' = [loc EXCEPT ![g].stop = k]
    /\ pc' = [pc EXCEPT ![g] = "select"]
    /\ UNCHANGED <<res, last, engine, entries, lru, items, maxSize, cacheSize, recent,
                   fileVer, fs>>

\* case <-s.stopWatch: return
StopCase(g) ==
    /\ ~res.panicked
    /\ pc[g] = "select"
    /\ res.chans[loc[g].stop].stopped
    /\ pc' = [pc EXCEPT ![g] = "done"]
    /\ UNCHANGED <<res, last, engine, entries, lru, items, maxSize, cacheSize, loc,
                   recent, fileVer, fs>>

\* case <-ticker.C: the directory is listed, some paths have changed
TickCase(g) ==
    /\ ~res.panicked
    /\ pc[g] = "select"
    /\ \E n \in 0..MaxChanged : loc' = [loc EXCEPT ![g].pending = n]
    /\ pc' = [pc EXCEPT ![g] = "tick"]
    /\ UNCHANGED <<res, last, engine, entries, lru, items, maxSize, cacheSize, recent,
                   fileVer, fs>>

\* select { case s.watchChan <- path: default: }: a send on a closed channel
\* panics, a full channel skips the path
Send(g) ==
    /\ ~res.panicked
    /\ pc[g] = "tick"
    /\ loc[g].pending > 0
    /\ \E k \in Visible(g) :
          IF res.chans[k].closed
          THEN /\ res' = [res EXCEPT !.panicked = TRUE]
               /\ pc' = [pc EXCEPT ![g] = "panic"]
               /\ UNCHANGED loc
          ELSE /\ res' = [res EXCEPT !.chans[k].len =
                                        IF @ < WatchBuffer THEN @ + 1 ELSE @]
               /\ loc' = [loc EXCEPT ![g].pending = @ - 1]
               /\ UNCHANGED pc
    /\ UNCHANGED <<last, engine, entries, lru, items, maxSize, cacheSize, recent,
                   fileVer, fs>>

\* the tick is handled, back to the head of the loop
EndTick(g) ==
    /\ ~res.panicked
    /\ pc[g] = "tick"
    /\ loc[g].pending = 0
    /\ pc' = [pc EXCEPT ![g] = "loop"]
    /\ UNCHANGED <<res, last, engine, entries, lru, items, maxSize, cacheSize, loc,
                   recent, fileVer, fs>>

\* the caller of Watch receives a path from the channel it was given
Receive(k) ==
    /\ ~res.panicked
    /\ k \in 1..Len(res.chans)
    /\ res.chans[k].len > 0
    /\ res' = [res EXCEPT !.chans[k].len = @ - 1]
    /\ UNCHANGED <<last, engine, entries, lru, items, maxSize, cacheSize, pc, loc,
                   recent, fileVer, fs>>

InitWatch ==
    /\ entries = <<>>
    /\ lru = <<>>
    /\ items = <<>>
    /\ cacheSize = CacheSize
    /\ maxSize = newTemplateCache(cacheSize)
    /\ pc = [g \in Pollers |-> "none"]
    /\ loc = [g \in Pollers |-> [stop |-> Nil, pending |-> 0]]
    /\ last = Step("new", Nil, Nil, Nil, TRUE, Nil, 193)
    /\ recent = <<>>
    /\ fileVer = <<>>
    /\ fs = <<>>
    /\ res = NewFileSystemSource
    /\ engine = New([CacheSize |-> cacheSize, EnableCache |-> TRUE])

NextWatch ==
    \/ Watch
    \/ StopWatch
    \/ \E g \in Pollers : InitialScan(g)
    \/ \E g \in Pollers : EnterSelect(g)
    \/ \E g \in Pollers : StopCase(g)
    \/ \E g \in Pollers : TickCase(g)
    \/ \E g \in Pollers : Send(g)
    \/ \E g \in Pollers : EndTick(g)
    \/ \E k \in Pollers : Receive(k)

SpecWatch == InitWatch /\ [][NextWatch]_vars

\* a started goroutine runs; the select takes a case that stays or keeps
\* becoming ready
FairWatch ==
    /\ SpecWatch
    /\ \A g \in Pollers :
          /\ WF_vars(InitialScan(g)) /\ WF_vars(EnterSelect(g)) /\ WF_vars(TickCase(g))
          /\ WF_vars(Send(g)) /\ WF_vars(EndTick(g))
          /\ SF_vars(StopCase(g))

(***************************************************************************)
(* The cache contract.                                                     *)
(***************************************************************************)
\* goroutine p runs the second critical section of get in this step
LockedStep(p) == pc[p] = "get_lock" /\ pc'[p] = "idle"

\* ... on the element that is stored under its key when it runs
OnStored(p) ==
    /\ loc[p].key \in DOMAIN entries
    /\ entries[loc[p].key] = loc[p].elem

\* a get of a key that is not in the index ends in its first critical section,
\* with a miss, and only such a get ends there
AbsentMisses ==
    /\ last'.op = "lookup" => last'.key \in DOMAIN entries
    /\ (last'.op = "get" /\ last'.line = 202) =>
            /\ last'.key \notin DOMAIN entries
            /\ ~last'.ok
            /\ <<entries', lru', items'>> = <<entries, lru, items>>

\* C1: a get with a modification time newer than the one stored in the entry of
\* its key (the entry the key has when the get takes the write lock) returns a
\* miss and removes the entry from the index and the list; a key comes into the
\* index by a put of that key only, and a get of a key that is not in the index
\* misses: every later get of the key misses until the next put of it.
C1_StaleGetEvicts ==
    [][ /\ \A p \in Procs :
              (LockedStep(p) /\ OnStored(p)
                  /\ loc[p].t > items[loc[p].elem].modTime)
              => /\ last' = Step("get", loc[p].key, Nil, Nil, FALSE, Nil, 216)
                 /\ loc[p].key \notin DOMAIN entries'
                 /\ Len(lru') = Len(lru) - 1
        /\ \A k \in Keys :
              (k \notin DOMAIN entries /\ k \in DOMAIN entries')
              => (last'.op = "put" /\ last'.key = k)
        /\ AbsentMisses
      ]_vars

\* a stale get has just evicted its entry
WitC1 ==
    /\ last.op = "get" /\ last.line = 216 /\ ~last.ok
    /\ last.key \notin DOMAIN entries
    /\ \A i \in 1..Len(lru) : items[lru[i]].key # last.key
    /\ lru # <<>>

\* C2: after put(id, doc, t1) the entry holds doc and t1 until it is evicted,
\* overwritten or cleared, and a get(id, t) with t not newer than t1 returns
\* (doc, hit) and leaves the entry stored; a get of an absent key misses.
C2_FreshGetHits ==
    [][ /\ \A p \in Procs :
              (LockedStep(p) /\ OnStored(p)
                  /\ loc[p].t <= items[loc[p].elem].modTime)
              => /\ last' = Step("get", loc[p].key, Nil, Nil, TRUE,
                                  items[loc[p].elem].template, 223)
                 /\ loc[p].key \in DOMAIN entries'
                 /\ items'[entries'[loc[p].key]] = items[loc[p].elem]
        /\ (last'.op = "put" /\ last'.key \in DOMAIN entries') =>
              items'[entries'[last'.key]] =
                  [key |-> last'.key, template |-> last'.doc, modTime |-> last'.t]
        /\ \A k \in (DOMAIN entries) \cap (DOMAIN entries') :
              ~(last'.op = "put" /\ last'.key = k)
              => items'[entries'[k]] = items[entries[k]]
        /\ AbsentMisses
      ]_vars

\* a get has just returned the stored document of an entry it found fresh
WitC2 ==
    /\ last.op = "get" /\ last.line = 223 /\ last.ok
    /\ last.key \in DOMAIN entries
    /\ items[entries[last.key]].template = last.template
    /\ lru[1] = entries[last.key]

\* C3: a put of a new key into a cache whose index holds maxSize keys evicts
\* exactly the least recently touched key; any other put evicts nothing.
C3_LruEviction ==
    [][ last'.op = "put" =>
          IF last'.key \notin DOMAIN entries /\ Cardinality(DOMAIN entries) >= maxSize
          THEN DOMAIN entries' =
                  ((DOMAIN entries) \ {recent[Len(recent)]}) \cup {last'.key}
          ELSE DOMAIN entries' = (DOMAIN entries) \cup {last'.key}
      ]_vars

\* C4: neither the index nor the list ever holds more than maxSize entries,
\* and maxSize is the configured size, or 100 when that is 0 or less.
C4_Bounded ==
    /\ Cardinality(DOMAIN entries) <= maxSize
    /\ Len(lru) <= maxSize
    /\ maxSize = (IF cacheSize <= 0 THEN 100 ELSE cacheSize)

\* a put into a full cache has just evicted an entry
WitC4 ==
    /\ last.op = "put" /\ last.line = 263
    /\ Len(lru) = maxSize
    /\ Cardinality(DOMAIN entries) = maxSize

\* C5: whatever interleaving of loads, modifications and cache clears, a load
\* never returns content older than the file had when the load took its ModTime;
\* a load that starts after a modification therefore returns the modified content.
C5_NoStaleContent ==
    last.op = "load" => (last.ok /\ last.template >= last.t
                            /\ last.template <= fileVer[last.key])

\* a load has just returned and stored the modified content of a file while
\* another load of that file, which took the older ModTime, is about to store
\* what it read
WitC5 ==
    /\ last.op = "load" /\ last.line = 177
    /\ last.template = MaxVersion /\ last.t = MaxVersion
    /\ last.key \in DOMAIN entries
    /\ items[entries[last.key]].modTime = MaxVersion
    /\ \E q \in Procs : /\ pc[q] = "ld_put"
                        /\ loc[q].key = last.key
                        /\ loc[q].t < MaxVersion

\* C6: get is atomic.  A necessary condition: when the second critical section
\* of a get takes a key out of the index, the element it takes out is the one
\* the get looked up (otherwise the get removes an entry it never examined,
\* which no sequential execution of the calls does).
C6_GetAtomic ==
    [][ \A p \in Procs :
          (LockedStep(p) /\ loc[p].key \in DOMAIN entries
              /\ loc[p].key \notin DOMAIN entries')
          => entries[loc[p].key] = loc[p].elem
      ]_vars

(***************************************************************************)
(* The import graph of a directory, for the variables of a call.           *)
(***************************************************************************)
\* the file an import expression refers to
Target(tok, callVars) == EnsureMd(resolvePlaceholders(tok.name, callVars))

\* the files (existing or not) that the body of f imports
Succ(dir, callVars, f) ==
    {Target(ImportsOf(dir[f])[i], callVars) : i \in 1..Len(ImportsOf(dir[f]))}

\* the existing files reachable from those of set S, S included
RECURSIVE ReachFrom(_, _, _)
ReachFrom(dir, callVars, S) ==
    LET more == S \cup ((UNION {Succ(dir, callVars, f) : f \in S}) \cap DOMAIN dir)
    IN  IF more = S THEN S ELSE ReachFrom(dir, callVars, more)

\* a cycle of imports can be reached from file root
CycleReachable(dir, callVars, root) ==
    \E f \in ReachFrom(dir, callVars, {root}) :
        \E g \in Succ(dir, callVars, f) \cap DOMAIN dir :
            f \in ReachFrom(dir, callVars, {g})

\* every import reachable from file root refers to an existing file
AllLoadable(dir, callVars, root) ==
    \A f \in ReachFrom(dir, callVars, {root}) : Succ(dir, callVars, f) \subseteq DOMAIN dir

\* how often token tok occurs in a body
Count(content, tok) == Len(SelectSeq(content, LAMBDA t : t = tok))

\* the last Generate was on an existing template
Rendered == res.root # "" /\ EnsureMd(res.root) \in DOMAIN fs

C8_LenientCycleDropped ==
    (Rendered /\ ~res.strict /\ CycleReachable(fs, res.vars, EnsureMd(res.root)))
    => /\ res.err = NoErr
       /\ AllLoadable(fs, res.vars, EnsureMd(res.root)) => ImportsOf(res.content) = <<>>
       /\ \A f \in ReachFrom(fs, res.vars, {EnsureMd(res.root)}) :
              Count(res.content, Text(f)) >= 1

\* a.md imports b.md and c.md, each of which imports d.md, and nothing else
Diamond(dir, callVars) ==
    /\ Len(ImportsOf(dir["a.md"])) = 2
    /\ Succ(dir, callVars, "a.md") = {"b.md", "c.md"}
    /\ Len(ImportsOf(dir["b.md"])) = 1
    /\ Succ(dir, callVars, "b.md") = {"d.md"}
    /\ Len(ImportsOf(dir["c.md"])) = 1
    /\ Succ(dir, callVars, "c.md") = {"d.md"}
    /\ ImportsOf(dir["d.md"]) = <<>>

\* C9: rendering the root of a diamond gives a text with the content of d.md in
\* it exactly once.
C9_DiamondOnce ==
    (Rendered /\ res.root = "a" /\ Diamond(fs, res.vars))
    => /\ res.err = NoErr
       /\ Count(res.content, Text("d.md")) = 1

\* C10: in lenient mode every import expression of the root body whose template
\* cannot be loaded is in the output as it was written, as often as it occurs
\* in the body, and the render succeeds.
C10_FailedImportKept ==
    (Rendered /\ ~res.strict)
    => /\ res.err = NoErr
       /\ \A i \in 1..Len(fs[EnsureMd(res.root)]) :
            LET tok == fs[EnsureMd(res.root)][i]
            IN  (tok.kind = "imp" /\ Target(tok, res.vars) \notin DOMAIN fs)
                => Count(res.content, tok) >= Count(fs[EnsureMd(res.root)], tok)

\* C11: in strict mode, when some import reached from the root refers to a
\* template that cannot be loaded (and no cycle of imports is in the way),
\* Generate fails with an ImportError whose cause is the load error, whose path
\* is the path that could not be loaded and whose template is one that imports
\* that path; no content is returned.
C11_StrictLoadFails ==
    (Rendered /\ res.strict
        /\ ~AllLoadable(fs, res.vars, EnsureMd(res.root))
        /\ ~CycleReachable(fs, res.vars, EnsureMd(res.root)))
    => /\ res.err.kind = "load"
       /\ res.content = <<>>
       /\ res.err.ImportPath \notin DOMAIN fs
       /\ res.err.Template \in ReachFrom(fs, res.vars, {EnsureMd(res.root)})
       /\ res.err.ImportPath \in Succ(fs, res.vars, res.err.Template)

(***************************************************************************)
(* Variable substitution.                                                  *)
(***************************************************************************)
\* the parsed root template of the last render
RootBody == parseFrontMatter(fs[EnsureMd(res.root)]).content
RootDefaults == parseFrontMatter(fs[EnsureMd(res.root)]).defaults
\* the last render succeeded on a root without import, so that the tokens of the
\* output stand where the tokens of the body stand
Aligned == Rendered /\ res.err = NoErr /\ ImportsOf(RootBody) = <<>>
\* the plain placeholders with a literal, in the root of the last render
WithLiteral == {i \in 1..Len(RootBody) : RootBody[i].kind = "plain" /\ RootBody[i].lit # ""}

Reported == {res.err.Variable[i] : i \in 1..Len(res.err.Variable)}
\* the plain placeholders of the root of the last render
PlainAt == {i \in 1..Len(RootBody) : RootBody[i].kind = "plain"}

MissingNames ==
    {RootBody[i].name : i \in {j \in PlainAt :
                                  /\ RootBody[j].lit = ""
                                  /\ res.vars[RootBody[j].name] = Unset
                                  /\ RootDefaults[RootBody[j].name] = Unset}}

\* C14: when missing variables are not allowed and some placeholder cannot be
\* resolved, the render fails with a VariableError that names every missing
\* variable, and returns no text.
C14_AllMissingNamed ==
    (Rendered /\ ImportsOf(RootBody) = <<>> /\ ~res.allowMissing
        /\ MissingNames # {})
    => /\ res.err.kind = "variable"
       /\ res.content = <<>>
       /\ MissingNames \subseteq Reported

\* a render that misses two variables
WitC14 ==
    /\ Rendered
    /\ ~res.allowMissing
    /\ Cardinality(MissingNames) = 2
    /\ res.err.kind = "variable"

\* the value the last render has for a variable: the call's, else the front
\* matter's
Given(n) == IF res.vars[n] # Unset THEN res.vars[n] ELSE RootDefaults[n]
\* the text a plain placeholder of the root stands for, its own text when
\* nothing resolves it
Expected(i) ==
    IF Given(RootBody[i].name) # Unset THEN Given(RootBody[i].name)
    ELSE IF RootBody[i].lit # "" THEN RootBody[i].lit
    ELSE Render(RootBody)[i]

RawGiven == {i \in 1..Len(RootBody) :
                RootBody[i].kind = "raw" /\ Given(RootBody[i].name) # Unset}

\* C16: the value of a raw placeholder {{{name}}} is put in the output as it
\* is, also when it reads as a placeholder: a successful render shows the value
\* unchanged, and no name that only a value mentions is reported missing.
C16_RawValueUntouched ==
    (Rendered /\ ImportsOf(RootBody) = <<>>) =>
        /\ res.err = NoErr =>
              \A i \in RawGiven : Render(res.content)[i] = Given(RootBody[i].name)
        /\ (Reported \cap VarNames) \subseteq MissingNames

(***************************************************************************)
(* Renders through the cache.                                              *)
(***************************************************************************)
\* the import expressions of the root of the last render that are dynamic
DynTargets == SelectSeq(ImportsOf(RootBody), LAMBDA tok : tok.name = Dyn)

\* C17: when the root holds the dynamic import {{@{{v}}}}, the call gives v a
\* value that names an existing template and no cycle of imports is in the
\* way, the render succeeds and every dynamic import expression of the root is
\* replaced by the body of the template this call's value names, whatever
\* earlier calls used and whether or not the cache served the root.
C17_DynamicImportPerCall ==
    (Rendered /\ DynTargets # <<>>
        /\ res.vars[DynVar] # Unset
        /\ EnsureMd(res.vars[DynVar]) \in DOMAIN fs
        /\ ~CycleReachable(fs, res.vars, EnsureMd(res.root)))
    => /\ res.err = NoErr
       /\ Count(res.content, Text(EnsureMd(res.vars[DynVar]))) >= Len(DynTargets)
       /\ Count(res.content, Imp(Dyn, FALSE)) = 0

\* what a Generate recorded as call returned
Result(call) ==
    [err |-> call.err, content |-> call.content, metadata |-> call.metadata]
\* what the call gives on an engine without cache, where every template is read
\* from its file
FromSource(call) ==
    LET r == generateInternal(fs, [cache |-> FALSE, ModTime |-> fileVer], Cache,
                              call.root,
                              [strict |-> call.strict,
                               allowMissing |-> call.allowMissing,
                               disableCache |-> call.disableCache,
                               vars |-> call.vars])
    IN  [err |-> r.err, content |-> r.content, metadata |-> r.metadata]
\* the step is a call of Generate
GenerateStep == last'.op = "Generate"

\* C18: a Generate called with DisableCache leaves the cache as it was (the
\* index, the recency list, the templates and ModTimes stored, the capacity),
\* for the root and for the imports, and returns what the files give.
C18_BypassLeavesCache ==
    [][(GenerateStep /\ res'.disableCache)
          => /\ entries' = entries
             /\ lru' = lru
             /\ items' = items
             /\ maxSize' = maxSize
             /\ fs' = fs
             /\ Result(res') = FromSource(res')]_vars

\* a successful bypassing render of a root with imports, on a cache that holds
\* templates
WitC18 ==
    /\ last.op = "Generate"
    /\ res.disableCache
    /\ Rendered
    /\ res.err = NoErr
    /\ ImportsOf(RootBody) # <<>>
    /\ lru # <<>>

\* C19: on an engine whose Config switched the cache off, no render populates
\* a cache and none is served by one.
C19_DisabledEngineHasNoCache ==
    ~engine.given.EnableCache =>
        /\ DOMAIN entries = {}
        /\ lru = <<>>
        /\ last.op = "Generate" => ~last.ok

\* C20: what a Generate through the cache returns (content, metadata or error)
\* is what the same call returns when every template is read from its file,
\* whatever the earlier calls were and whatever variables they used.
C20_CachedEqualsSource ==
    (res.root # "" /\ ~res.disableCache) => Result(res) = FromSource(res)

\* a render whose root the cache served, with a dynamic import resolved by the
\* value of this call
WitC20 ==
    /\ last.op = "Generate"
    /\ last.ok
    /\ ~res.disableCache
    /\ res.err = NoErr
    /\ DynTargets # <<>>
    /\ res.vars[DynVar] = "d"
    /\ Count(res.content, Text("d.md")) > 0

(***************************************************************************)
(* The cache contract, continued.                                          *)
(***************************************************************************)
\* C21: a put on a key that is in the index stores the document and the ModTime
\* it was given (an older ModTime too), makes the entry the most recent one and
\* leaves the index and the list as long as they were; a get of that key with
\* that ModTime, called next, returns the document.
C21_PutOverwrites ==
    [][(last'.op = "put" /\ last'.key \in DOMAIN entries)
          => /\ DOMAIN entries' = DOMAIN entries
             /\ Len(lru') = Len(lru)
             /\ items'[entries'[last'.key]] =
                   [key |-> last'.key, template |-> last'.doc, modTime |-> last'.t]
             /\ lru'[1] = entries'[last'.key]
             /\ \E r \in {get([entries |-> entries', lru |-> lru',
                                items |-> items', maxSize |-> maxSize'],
                               last'.key, last'.t)} :
                   r.ok /\ r.template = last'.doc
      ]_vars

\* a put has just overwritten an entry of a full cache
WitC21 ==
    /\ last.op = "put" /\ last.line = 239
    /\ Len(lru) = maxSize
    /\ lru[1] = entries[last.key]
    /\ items[lru[1]].template = last.doc

\* the step starts a get: it is the first critical section of one
GetStarts == last'.op \in {"get", "lookup"} /\ \A p \in Procs : ~LockedStep(p)

\* C22: clear leaves the index and the list empty; a key comes into the index
\* by a put of that key only; a get called while its key is not in the index
\* misses.  So every get called after a clear misses until a put of its key.
C22_ClearEmpties ==
    [][ /\ last'.op = "clear" => (DOMAIN entries' = {} /\ lru' = <<>>)
        /\ \A k \in (DOMAIN entries') \ (DOMAIN entries) :
              last'.op = "put" /\ last'.key = k
        /\ (GetStarts /\ last'.key \notin DOMAIN entries)
              => (last'.op = "get" /\ ~last'.ok /\ DOMAIN entries' = DOMAIN entries)
      ]_vars

\* a clear has just emptied a cache while a get that found an element before
\* is still to take the write lock
WitC22 ==
    /\ last.op = "clear"
    /\ \E p \in Procs : pc[p] = "get_lock" /\ loc[p].elem # Nil

(***************************************************************************)
(* String templates.                                                       *)
(***************************************************************************)
\* the call of the package-level Generate has returned
StringDone == last.op = "Generate" /\ last.line = 81
\* the import expressions in the text of the string template
StringImports == SelectSeq(res.root, LAMBDA tok : tok.kind = "imp")
\* the body of the string template: the text after the front matter
StringBody == SubSeq(res.root, FrontLen(res.root) + 1, Len(res.root))

\* C23: the package-level Generate fails whenever the text of the template
\* holds an import expression, whatever the options are; a text without import
\* is rendered as a template is: it fails only with a VariableError, in a call
\* that does not allow missing variables, and a successful render has a piece
\* of output for every piece of the body.
C23_StringImportsFail ==
    StringDone =>
        /\ StringImports # <<>> => (res.err # NoErr /\ res.content = <<>>)
        /\ StringImports = <<>> =>
              /\ res.err.kind \in {"none", "variable"}
              /\ res.err.kind = "variable" => ~res.allowMissing
              /\ res.err = NoErr => Len(res.content) = Len(StringBody)

\* a lenient call with missing variables allowed, on a text with an import,
\* has failed
WitC23 ==
    /\ StringDone
    /\ StringImports # <<>>
    /\ ~res.strict /\ res.allowMissing
    /\ res.err # NoErr

(***************************************************************************)
(* The options of a call.                                                  *)
(***************************************************************************)
\* C24: a root that does not exist fails the call with the NotFound error of
\* the root, strict or not; a lenient call never returns an import error; a
\* call that does not allow missing variables and whose root has a placeholder
\* nothing resolves fails with a VariableError also when it is lenient (in a
\* strict call an import error can come first), and a VariableError is
\* returned to such calls only.
C24_LenientOnlyImports ==
    /\ (res.root # "" /\ EnsureMd(res.root) \notin DOMAIN fs)
          => /\ res.err = TemplateNotFoundError(EnsureMd(res.root))
             /\ res.content = <<>>
    /\ (Rendered /\ ~res.strict) => res.err.kind \in {"none", "variable"}
    /\ (Rendered /\ ~res.allowMissing /\ MissingNames # {}
          /\ (~res.strict \/ ImportsOf(RootBody) = <<>>))
          => (res.err.kind = "variable" /\ res.content = <<>>)
    /\ res.err.kind = "variable" => ~res.allowMissing

\* a lenient call that skipped a failed import and failed on a missing variable
WitC24 ==
    /\ Rendered
    /\ ~res.strict /\ ~res.allowMissing
    /\ "x.md" \in Succ(fs, res.vars, EnsureMd(res.root))
    /\ MissingNames # {}
    /\ res.err.kind = "variable"

(***************************************************************************)
(* Concurrent callers.                                                     *)
(***************************************************************************)
\* goroutine p is inside a call of get, put or clear
InCall(p) == pc[p] # "idle"

\* C25: goroutines calling get, put and clear concurrently never deadlock and
\* never panic: every element a get carries from its lookup to its locked part
\* still holds a cacheItem, and under fair scheduling every call returns
C25_CallsReturn ==
    /\ [](\A p \in Procs : loc[p].elem # Nil => loc[p].elem \in DOMAIN items)
    /\ \A p \in Procs : InCall(p) ~> ~InCall(p)

\* a get waits for Lock on an element a concurrent clear has dropped, while the
\* other goroutine holds the lock
WitC25 ==
    \E p, q \in Procs :
        /\ pc[p] = "get_lock" /\ loc[p].elem # Nil
        /\ getLookup(Cache, loc[p].key) # loc[p].elem
        /\ pc[q] = "put_held"

(***************************************************************************)
(* Front-matter.                                                           *)
(***************************************************************************)
\* parseFrontMatter has returned
Parsed == last.op = "parseFrontMatter"

\* the closing delimiter of an input that begins with one (0 if there is none)
Closing ==
    LET at == {i \in 2..Len(res.input) : res.input[i] = Delim}
    IN  IF res.input = <<>> \/ res.input[1] # Delim \/ at = {} THEN 0
        ELSE CHOOSE i \in at : \A j \in at : i <= j

\* the input is a block of "key: value" lines between two delimiters, then text
Delimited ==
    /\ Closing > 2
    /\ \A i \in 2..(Closing - 1) : Len(SplitN(res.input[i], ":")) = 2
    /\ \A i \in (Closing + 1)..Len(res.input) : res.input[i] = <<"text">>

\* the key and the value of input line i
KeyOf(i) == TrimSpace(SplitN(res.input[i], ":")[1])
ValueOf(i) == TrimSpace(SplitN(res.input[i], ":")[2])

\* C26: a front-matter block between --- lines is parsed into metadata, and
\* the body is the text after the closing --- line
C26_DelimitedFrontMatter ==
    (Parsed /\ Delimited)
        => /\ res.content = SubSeq(res.input, Closing + 1, Len(res.input))
           /\ \A i \in 2..(Closing - 1) :
                 IF HasPrefix(KeyOf(i), "default.")
                 THEN /\ TrimPrefix(KeyOf(i), "default.") \in DOMAIN res.metadata[<<"defaults">>].map
                 ELSE KeyOf(i) \in DOMAIN res.metadata

\* the front-matter lines of the input: the "# key: value" lines at its start
RECURSIVE HashLen(_)
HashLen(lines) ==
    IF lines = <<>> \/ ~HasPrefix(Head(lines), "# ") THEN 0
    ELSE 1 + HashLen(Tail(lines))
FrontKeys ==
    {TrimSpace(SplitN(TrimPrefix(res.input[i], "# "), ":")[1]) :
        i \in {j \in 1..HashLen(res.input) :
                  Len(SplitN(TrimPrefix(res.input[j], "# "), ":")) = 2}}
DefaultKeys == {k \in FrontKeys : HasPrefix(k, "default.")}

\* C27: the metadata always has the key defaults, holding a mapping (empty
\* when there are no default. entries); a default. key is in that mapping
\* under its suffix and is no top-level key
C27_DefaultsMapping ==
    Parsed
        => /\ <<"defaults">> \in DOMAIN res.metadata
           /\ DOMAIN res.metadata[<<"defaults">>] = {"map"}
           /\ \A k \in DefaultKeys :
                 /\ TrimPrefix(k, "default.") \in DOMAIN res.metadata[<<"defaults">>].map
                 /\ k \notin DOMAIN res.metadata
           /\ DefaultKeys = {} => res.metadata[<<"defaults">>].map = <<>>

(***************************************************************************)
(* What one call loads and inlines.                                        *)
(***************************************************************************)
\* the last Generate again, on the directory it ran on, with its record of loads
\* and inlined bodies
Trace ==
    generateInternal(fs, Engine, Cache, res.root,
                     [strict |-> res.strict, allowMissing |-> res.allowMissing,
                      disableCache |-> res.disableCache, vars |-> res.vars])

\* the identifiers a record names
Named(log) == {log[i] : i \in 1..Len(log)}

\* C28: within one Generate call every template identifier, the root's
\* included, is loaded at most once and its body is inlined at most once, so
\* the loads of the call are at most as many as the identifiers loaded
C28_LoadedAndInlinedOnce ==
    Rendered
        => /\ \A id \in Named(Trace.loads) : Count(Trace.loads, id) <= 1
           /\ \A id \in Named(Trace.inlined) : Count(Trace.inlined, id) <= 1
           /\ Len(Trace.loads) <= Cardinality(Named(Trace.loads))

(***************************************************************************)
(* Nested placeholders of import paths.                                    *)
(***************************************************************************)
\* the import expression {{@{{n}}}}
NestedImp == Imp(Braced[PathVar], FALSE)

\* the last render was of a root that has the expression in its body, by a call
\* that gives the nested name no value
Unresolved ==
    /\ Rendered
    /\ Count(RootBody, NestedImp) > 0
    /\ Lookup(res.vars, PathVar) = Unset

\* C29: a nested placeholder of an import path is resolved from the call's
\* variables only; without a call-time value the path keeps the placeholder, a
\* front-matter default or not, and the import is a failed load: an error in
\* strict mode, the expression kept in lenient mode
C29_PathFromCallVarsOnly ==
    Unresolved
        => IF res.strict
           THEN res.err.kind = "load" /\ res.err.ImportPath = EnsureMd(Braced[PathVar])
           ELSE /\ res.err = NoErr
                /\ Count(res.content, NestedImp) = Count(RootBody, NestedImp)

(***************************************************************************)
(* One expression several times.                                           *)
(***************************************************************************)
\* the last render was of a root whose imports are all the one expression
\* Head(ImportsOf(RootBody)), and the template it refers to exists and imports
\* nothing
Repeated ==
    /\ Rendered
    /\ ImportsOf(RootBody) # <<>>
    /\ \A i \in 1..Len(ImportsOf(RootBody)) :
          ImportsOf(RootBody)[i] = fullMatchOf(ImportsOf(RootBody)[1].name)
    /\ Target(ImportsOf(RootBody)[1], res.vars) \in DOMAIN fs
    /\ ImportsOf(fs[Target(ImportsOf(RootBody)[1], res.vars)]) = <<>>

\* C30: an import expression that occurs k >= 1 times in a body and whose
\* template loads is replaced at every occurrence by the content of that
\* template, and the render succeeds, in strict and in lenient mode
C30_EveryOccurrenceReplaced ==
    Repeated
        => /\ res.err = NoErr
           /\ res.content =
                 ReplaceAll(RootBody, ImportsOf(RootBody)[1],
                            parseFrontMatter(fs[Target(ImportsOf(RootBody)[1], res.vars)]).content)

(***************************************************************************)
(* Raw placeholders without a value.                                       *)
(***************************************************************************)
\* the raw placeholders of the root of the last render that have no value
RawUnset == {i \in 1..Len(RootBody) :
                RootBody[i].kind = "raw" /\ Given(RootBody[i].name) = Unset}

\* C31: a raw placeholder {{{name}}} without a value for name is left in the
\* output as it was written, whether missing variables are allowed or not: it
\* is not reported as a missing variable and the plain pass does not rewrite it
C31_UnresolvedRawVerbatim ==
    (Rendered /\ ImportsOf(RootBody) = <<>>) =>
        \A i \in RawUnset :
            /\ varNameOf(RootBody[i]) \notin Reported
            /\ MissingNames = {} => res.err.kind # "variable"
            /\ res.err = NoErr => Render(res.content)[i] = Render(RootBody)[i]

(***************************************************************************)
(* Parsed templates are not changed.                                       *)
(***************************************************************************)
\* the cache entries that are as new as their files
Current == {k \in DOMAIN entries : items[entries[k]].modTime = fileVer[k]}

\* C32: what the parser produced for a template does not change: a cached
\* template of an unmodified file has the metadata and the body of the file,
\* whatever calls were made and whatever the callers did with the metadata
\* they were given, and that is what a call returns
C32_ParsedTemplateImmutable ==
    /\ \A k \in Current : items[entries[k]].template = parsedTemplate(fs, k)
    /\ (last.op = "Generate" /\ res.err = NoErr) => res.metadata = RootDefaults

(***************************************************************************)
(* Calls do not see each other's imports.                                  *)
(***************************************************************************)
\* the goroutines inside the import list of a call
Running == {p \in Procs : pc[p] = "imports"}

\* C33: every call has a processed map of its own: whatever other calls have
\* visited while it ran, a call returns what it returns when it runs alone
C33_VisitedSetPrivate ==
    last.op = "Generate" => Result(res) = FromSource(res)

\* a call has returned content with an import that a call still running has
\* visited as well
WitC33 ==
    /\ last.op = "Generate"
    /\ res.err = NoErr
    /\ \E q \in Running : loc[q].processed \cap Named(Trace.loads) # {}

(***************************************************************************)
(* The import expressions of a content.                                    *)
(***************************************************************************)
\* the position after the }} that balances the {{@ at position at, nested
\* {{ }} pairs counted; 0 when the expression is never closed
BalancedEnd(content, at) ==
    LET close == findClose(content, at + 3, 1)
    IN  IF close.braceCount = 0 THEN close.end ELSE 0

\* the paths of the import expressions from position start on, left to right:
\* an expression runs from a {{@ to the }} that balances it; a {{@ that is
\* never closed is no expression
RECURSIVE ExpressionsFrom(_, _)
ExpressionsFrom(content, start) ==
    LET idx == IndexImport(content, start)
    IN  IF idx = -1 THEN <<>>
        ELSE IF BalancedEnd(content, idx) = 0
        THEN ExpressionsFrom(content, idx + 1)
        ELSE <<TrimSpace(Slice(content, idx + 3, BalancedEnd(content, idx) - 2))>>
                \o ExpressionsFrom(content, BalancedEnd(content, idx))

\* C34: extractImports returns, in the order of their occurrence, the trimmed
\* path of every import expression of the content: a dynamic path whole, and
\* nothing for an expression that is never closed
C34_EveryImportExtracted ==
    last.op = "extractImports"
        => res.imports = ExpressionsFrom(Flatten(res.input), 0)

(***************************************************************************)
(* DefaultOptions.                                                         *)
(***************************************************************************)
\* the options the claim gives the last call: its own when it passed any,
\* else the DefaultOptions the engine was made with
Claimed == IF res.opts # <<>> THEN res.opts[1] ELSE engine.given.DefaultOptions

\* the last call as a call under options o, on a directory read from its files
Under(o) ==
    LET r == generateInternal(fs, [cache |-> FALSE, ModTime |-> fileVer], Cache, res.root,
                              [strict |-> o.strict, allowMissing |-> o.allowMissing,
                               disableCache |-> o.disableCache, vars |-> res.vars])
    IN  [err |-> r.err, content |-> r.content, metadata |-> r.metadata]

\* C35: a call without options runs under DefaultOptions, a call with
\* options runs under these as a whole; the cache serves the call only when
\* these options allow it; DefaultOptions stay as they were given
C35_OptionsReplaceDefaults ==
    /\ engine.config.DefaultOptions = engine.given.DefaultOptions
    /\ last.op = "Generate"
          => /\ Result(res) = Under(Claimed)
             /\ last.ok => ~Claimed.disableCache

\* a call that passed options with every field false, to an engine whose
\* DefaultOptions are strict, has rendered a root with a failed import
WitC35 ==
    /\ last.op = "Generate"
    /\ res.opts = <<[strict |-> FALSE, allowMissing |-> FALSE, disableCache |-> FALSE]>>
    /\ engine.config.DefaultOptions.strict
    /\ ImportsOf(fs[SubFile]) # <<>>
    /\ res.err.kind = "variable"

(***************************************************************************)
(* Index and list.                                                         *)
(***************************************************************************)
\* C36: the index and the recency list describe the same entries: every key
\* of the index maps to an element of the list that carries the key, every
\* element of the list is the one the index has for its key, and no key is
\* twice in the list
C36_IndexMatchesList ==
    /\ \A k \in DOMAIN entries :
          InList(lru, entries[k]) /\ items[entries[k]].key = k
    /\ \A i \in 1..Len(lru) :
          /\ items[lru[i]].key \in DOMAIN entries
          /\ entries[items[lru[i]].key] = lru[i]
    /\ \A i, j \in 1..Len(lru) : items[lru[i]].key = items[lru[j]].key => i = j


(***************************************************************************)
(* Cycle reports.                                                          *)
(***************************************************************************)
\* C37: a strict render ends with the circular import error only when a cycle
\* of imports can be reached from the root
C37_CycleReportedOnlyOnCycle ==
    (Rendered /\ res.strict /\ res.err.kind = "circular")
        => CycleReachable(fs, res.vars, EnsureMd(res.root))


(***************************************************************************)
(* Call options.                                                           *)
(***************************************************************************)
\* the front-matter lines of the input that assign the key temperature
TemperatureLines ==
    {i \in 1..HashLen(res.input) :
        LET parts == SplitN(TrimPrefix(res.input[i], "# "), ":")
        IN  Len(parts) = 2 /\ TrimSpace(parts[1]) = <<"temperature">>}

\* the front-matter gives temperature a number (the last assignment counts)
NumericTemperature ==
    /\ TemperatureLines # {}
    /\ LET i == CHOOSE j \in TemperatureLines : \A k \in TemperatureLines : k <= j
           value == TrimSpace(SplitN(TrimPrefix(res.input[i], "# "), ":")[2])
       IN  Len(value) = 1 /\ value[1] \in DOMAIN Numerals

\* C38: when the front-matter gives temperature a number, with or without a
\* fractional part, the call options hold a temperature option
C38_NumericTemperatureOption ==
    (last.op = "CallOptions" /\ NumericTemperature)
        => \E i \in 1..Len(res.opts) : res.opts[i].opt = "WithTemperature"


(***************************************************************************)
(* Watching a directory.                                                   *)
(***************************************************************************)
\* C39: no polling goroutine sends on a watch channel that StopWatch has closed
C39_NoSendAfterClose ==
    \A g \in Pollers : pc[g] # "panic"

\* the goroutine is started and has not returned (a panic ends the process and
\* every goroutine with it)
Polling(g) == ~res.panicked /\ pc[g] \in {"scan", "loop", "select", "tick"}

\* C40: once StopWatch has closed the channels of a Watch, the goroutine that
\* Watch started leaves pollChanges
C40_StoppedPollerExits ==
    \A g \in Pollers :
        (g <= Len(res.chans) /\ res.chans[g].stopped) ~> ~Polling(g)
====
